---- MODULE Spec2Model ----
(***************************************************************************)
(* Credit ledger and billing-event state machine of FoloUp.                *)
(*                                                                         *)
(* BillingService (services/billing.service.ts), CreditService.addCredits, *)
(* the Lemon Squeezy webhook (app/api/billing/webhook/route.ts) and the    *)
(* tables they share.                                                      *)
(* Every await on the database is one step of an invocation, so that       *)
(* invocations interleave exactly where the code suspends.                 *)
(*                                                                         *)
(* Money is an integer number of 1/10000 USD (the 4 fraction digits that   *)
(* calculateInterviewCost keeps).                                          *)
(***************************************************************************)
EXTENDS Integers, Sequences, FiniteSets

\* ------------------------------------------------------------------ bounds

\* Invocations (requests) of a behaviour in which they run one at a time;
\* invocation t starts after t-1.
MaxTasks == 3

\* Invocations of a behaviour in which they run concurrently.
MaxActive == 2

\* Database calls that fail in one behaviour.
MaxFaults == 1

\* Longest call duration, in seconds, of the cost calculator's own check.
MaxDuration == 905

\* -------------------------------------------------------- program constants

\* toFixed(4): money is kept in units of 10^-4 USD.
Scale == 10000

\* const INITIAL_CREDIT_AMOUNT_USD = 2.00
INITIAL_CREDIT_AMOUNT_USD == 20000

\* "Cost is $2 for every 10 minutes (600 seconds)"
UnitSeconds == 600

RatePerUnit == 2

\* The earlier billing.service.ts: "Cost is $0.20 for every 10 minutes", in
\* tenths of a dollar.
RateTenthsPerUnit == 2

\* total is in cents: amount_usd = total / 100
CentsPerUsd == 100

\* credits_granted = Math.floor(amount_usd * 10)
CreditsPerUsd == 10

\* digest('hex') of a SHA-256 HMAC: 64 hexadecimal characters.
DigestLen == 64

\* ------------------------------------------------------------------ inputs

\* Every row, balance and claim is per organization: one suffices.
Orgs == {"org1"}

\* Ids of the user table.
Users == {"u1", "u2"}

\* duration_seconds handed to createBillableEvent: free, $1.00, $3.00.
Durations == {0, 300, 900}

\* cost_usd handed to createBillableEvent by its caller.
CallerCosts == {0, 70000}

\* order_created webhooks the payment provider may deliver (and redeliver).
Payloads ==
  { [order |-> "ord1", purchase |-> "cp1", org |-> "org1", total |-> 50],
    [order |-> "ord2", purchase |-> "cp2", org |-> "org1", total |-> 15],
    [order |-> "ord3", purchase |-> "cp3", org |-> "org1", total |-> 0] }

\* Retell webhook: durationInMinutes = durationInSeconds / 60
SecondsPerMinute == 60

\* const costPerMinute = 0.20, in cents
CostPerMinuteCents == 20

\* Durations, in seconds, of the calls Retell reports as ended: none, one
\* whose cost rounds to zero cents, $1.00 and $1.33.
RetellDurations == {0, 1, 300, 400}

\* The interview's payer: organization_id, else user_id, else neither.
NoEntity == [type |-> "none", id |-> "none"]

Entities ==
  { [type |-> "organization", id |-> "org1"],
    [type |-> "user", id |-> "u1"],
    NoEntity }

\* A call_ended notification of Retell for call1, correctly signed.
EndedCall(d) ==
  [apiKey |-> "key", signature |-> "valid", event |-> "call_ended",
   call_id |-> "call1", duration |-> d]

\* Requests to the Retell webhook: ended calls of every duration, one
\* without call_id, the other events, and requests that are refused (no
\* RETELL_API_KEY, no signature header, a signature Retell.verify rejects).
RetellRequests ==
  { EndedCall(d) : d \in RetellDurations }
  \cup { [EndedCall(300) EXCEPT !.call_id = ""],
         [EndedCall(300) EXCEPT !.event = "call_started"],
         [EndedCall(300) EXCEPT !.event = "call_analyzed"],
         [EndedCall(300) EXCEPT !.event = "other"],
         [EndedCall(300) EXCEPT !.apiKey = ""],
         [EndedCall(300) EXCEPT !.signature = "missing"],
         [EndedCall(300) EXCEPT !.signature = "invalid"] }

\* const minimumBalanceThreshold = 0.01
minimumBalanceThreshold == 100

\* Bodies of a register-call request: with and without its ids.
RegisterCallBodies == {"ids", "no_ids"}

\* What retellClient.call.createWebCall does: it creates the call and
\* returns it, returns nothing usable, or throws.
CreateWebCallOutcomes == {"call", "no_call_id", "throws"}

\* amountToDeduct handed to deductCredits: nothing, and a call's 0.20.
DeductAmounts == {0, 2000}

\* The 2.00 of getClientById's initial credit, in 1/10000 USD.
INITIAL_CLIENT_CREDIT == 20000

\* CreditService.addCredits as its callers use it: the initial credit of
\* 2.00, and deductCredits of a call's cost (0.20) as a negative amount.
CreditOps ==
  { [amount |-> 20000, type |-> "initial"],
    [amount |-> 0 - 2000, type |-> "interview_usage"] }

NoPayload == [order |-> "none", purchase |-> "none", org |-> "none", total |-> 0]

\* LEMONSQUEEZY_WEBHOOK_SECRET: not configured, or configured.
Secrets == {"", "whsec"}

\* Keys a sender may sign with: the shared secret, or a guess.
Keys == {"whsec", "guess"}

\* The webhook whose requests are examined: an order with credits.
WebhookPayloads == { p \in Payloads : p.order = "ord1" }

\* hmac.update(rawBody).digest('hex'). The digest is modelled by what it
\* depends on (key and body); hex counts its hexadecimal characters and
\* extra the characters after them that are not hexadecimal.
createHmac(secret, rawBody) ==
  [key |-> secret, body |-> rawBody, hex |-> DigestLen, extra |-> 0]

NoSignature == [key |-> "none", body |-> "none", hex |-> 0, extra |-> 0]

\* X-Signature headers a sender may present with payload p: the digest of
\* its body under either key, the digest of another body under the shared
\* secret, and the right digest cut short or followed by two other
\* characters.
Signatures(p) ==
  LET digest == createHmac("whsec", p.order)
  IN { createHmac(k, p.order) : k \in Keys }
     \cup { createHmac("whsec", q.order) : q \in Payloads }
     \cup { [digest EXCEPT !.hex = DigestLen - 2],
            [digest EXCEPT !.extra = 2] }

\* What a body says besides the order: meta.event_name, the order's
\* data.attributes.status, and meta.custom_data: with the identifiers the
\* handler looks for ("ids"), without them ("empty"), or absent.
Events ==
  [event_name : {"order_created", "unhandled_event"},
   status : {"paid", "pending"},
   custom_data : {"ids", "empty", "absent"}]

\* The body of a paid order with its identifiers.
PaidOrder ==
  [event_name |-> "order_created", status |-> "paid", custom_data |-> "ids"]

\* A request: the environment's secret, the X-Signature header (NoSignature
\* when absent) and the body.
Requests ==
  { [secret |-> s, signature |-> sig, payload |-> p, event |-> PaidOrder] :
      s \in Secrets, p \in WebhookPayloads,
      sig \in UNION { Signatures(q) : q \in WebhookPayloads }
               \cup {NoSignature} }

NoRequest ==
  [secret |-> "", signature |-> NoSignature, payload |-> NoPayload,
   event |-> PaidOrder]

\* The request of a sender that signs payload p with the configured secret.
SignedRequest(p) ==
  [secret |-> "whsec", signature |-> createHmac("whsec", p.order),
   payload |-> p, event |-> PaidOrder]

\* Requests of that sender for any event.
EventRequests ==
  { [SignedRequest(p) EXCEPT !.event = ev] :
      p \in WebhookPayloads, ev \in Events }

\* A JavaScript value passed as amount_usd: its typeof, whether it is NaN,
\* and its value in 1/10000 USD when it is a number.
JsNumber(v) == [type |-> "number", nan |-> FALSE, v |-> v]

NaN == [type |-> "number", nan |-> TRUE, v |-> 0]

NoAmount == [type |-> "undefined", nan |-> FALSE, v |-> 0]

\* Arguments of a direct call of addCreditsToOrganization: 0, -10, 20 (the
\* amounts of the tests), NaN, a string, and nothing.
Amounts ==
  { JsNumber(0), JsNumber(0 - 10 * Scale), JsNumber(20 * Scale), NaN,
    [type |-> "string", nan |-> FALSE, v |-> 0], NoAmount }

\* amount_usd <= 0 on a number: false on NaN.
AtMostZero(x) == ~x.nan /\ x.v <= 0

\* Balances a caller asks updateOrganizationCreditBalanceInDB to store:
\* 0, and the 70 of the tests.
NewBalances == {0, 70 * Scale}

\* call_id values handed to saveResponse: the call of a stored response, and
\* one that matches no response.
Calls == {"call1", "call0"}

\* The rows that update(...).eq("call_id", call_id).select() returns.
updatedResponseData(call_id) ==
  IF call_id = "call1" THEN << [id |-> 1, interview_id |-> "int1"] >>
  ELSE << >>

Tasks == 1..MaxTasks

\* ------------------------------------------------------------------- state

VARIABLES
  organization_credits,  \* org -> [exists, bal, applied] (organization_id is the key)
  billable_events,       \* sequence of rows; a row's id is its index
  credit_purchases,      \* set of rows [id, order, org, credits, status, reason,
                         \* processed_at]
  credit_transactions,   \* the ledger table: sequence of [org, amount, type]
  organization,          \* org -> credits, the column of the organization table
  user,                  \* user -> [exists, organization_id, credits], the user table
  web_calls,             \* the calls created at Retell: the invocations that did
  opening,               \* organization_credits as the first invocation found it
  faults,                \* database calls that have failed so far
  tasks                  \* invocation -> its position and locals

vars == << organization_credits, billable_events, credit_purchases,
           credit_transactions, organization, user, web_calls, opening,
           faults, tasks >>

\* A user id without a row in the user table.
NoUser == [exists |-> FALSE, organization_id |-> "none", credits |-> 0]

NoRecord == [exists |-> FALSE, bal |-> 0, applied |-> FALSE]

\* kind: the entry point; pc: the database call the invocation is suspended
\* on; evt, cost: the inserted billable event (newEvent); gbRet: what
\* getOrganizationCreditBalanceFromDB returned (-1 before it returns); nb: the
\* local newBalance about to be written; p, credits: the webhook's payload
\* and credits_granted; called: addCreditsToOrganization was invoked;
\* amountToAdd, transactionType: the arguments of CreditService.addCredits;
\* req: the HTTP request of a webhook; entityType: the table
\* CreditService works on; id, email: the arguments of getClientById;
\* deductionSuccess: what deductCredits returned to the Retell webhook;
\* ret: what the caller or sender got back; err: the error thrown.
IdleTask ==
  [ kind |-> "none", pc |-> "idle", org |-> "none", evt |-> 0, cost |-> 0,
    gbRet |-> -1, nb |-> 0, p |-> NoPayload, credits |-> 0, called |-> FALSE,
    amountToAdd |-> 0, transactionType |-> "none", req |-> NoRequest,
    amount |-> NoAmount, rawRet |-> -1, call |-> "none", dur |-> 0,
    entityType |-> "organization", id |-> "none", email |-> FALSE,
    deductionSuccess |-> "none",
    ret |-> "none", err |-> "none" ]

\* Rows an organization can hold before the first invocation: none, a record
\* with the grant applied ($5.00 left), a record without the grant.
OpeningRecords ==
  { NoRecord,
    [exists |-> TRUE, bal |-> 50000, applied |-> TRUE],
    [exists |-> TRUE, bal |-> 0, applied |-> FALSE] }

Init ==
  /\ organization_credits \in [Orgs -> OpeningRecords]
  /\ opening = organization_credits
  /\ billable_events = << >>
  /\ credit_purchases = {}
  /\ credit_transactions = << >>
  /\ organization = [o \in Orgs |-> 0]
  /\ user = [u \in Users |-> NoUser]
  /\ web_calls = {}
  /\ faults = 0
  /\ tasks = [t \in Tasks |-> IdleTask]

\* ----------------------------------------------------------- pure functions

\* toFixed4 that drops the digits after the fourth instead of rounding.
toFixed4Truncating(num, den) == (num * Scale) \div den

\* Number.prototype.toFixed(4) of num/den >= 0, in units of 10^-4: the
\* nearest multiple, halves up.
toFixed4(num, den) == (2 * num * Scale + den) \div (2 * den)

\* calculateInterviewCost(actual_call_duration_seconds)
calculateInterviewCost(d) ==
  IF d <= 0 THEN 0 ELSE toFixed4(d * RatePerUnit, UnitSeconds)

\* calculateInterviewCost of the billing.service.ts that charges $0.20 per 10
\* minutes.
calculateInterviewCostPendingPayment(d) ==
  IF d <= 0 THEN 0 ELSE toFixed4(d * RateTenthsPerUnit, UnitSeconds * 10)

\* ------------------------------------------------------------ task plumbing

Started(t) == tasks[t].pc # "idle"

Finished(t) == tasks[t].pc = "done"

AllDone == \A t \in Tasks : tasks[t].pc \in {"idle", "done"}

\* Invocations start in index order.
MayStart(t) == /\ tasks[t].pc = "idle"
               /\ t > 1 => Started(t - 1)

SetTask(t, r) == tasks' = [tasks EXCEPT ![t] = r]

\* An error after which processEventWithCredits starts over with the read
\* of the balance.
ThrowRetries(tk, msg) ==
  IF tk.kind = "wh"
  THEN [tk EXCEPT !.pc = "wh_failed", !.err = msg]
  ELSE IF tk.kind = "cbe"
  THEN [tk EXCEPT !.pc = "gb_select", !.err = msg]
  ELSE [tk EXCEPT !.pc = "done", !.err = msg]

\* An error thrown inside an invocation. The webhook catches it (route.ts
\* line 196); processEventWithCredits is not awaited by createBillableEvent,
\* so there the rejection is unhandled and the invocation just ends.
Throw(tk, msg) ==
  IF tk.kind = "wh"
  THEN [tk EXCEPT !.pc = "wh_failed", !.err = msg]
  ELSE [tk EXCEPT !.pc = "done", !.err = msg]

\* ------------------------------------------------- organization_credits

\* updateOrganizationCreditBalanceInDB: UPDATE ... SET current_balance_usd
\* WHERE organization_id = org. A missing row matches nothing and PostgREST
\* reports no error.
updateOrganizationCreditBalanceInDB(oc, org, newBalance) ==
  IF oc[org].exists THEN [oc EXCEPT ![org].bal = newBalance] ELSE oc

\* GbReturn without the comparison of the balance with the cost: the event is
\* debited whatever the balance.
GbReturnUnchecked(tk, v) ==
  IF tk.kind = "cbe"
  THEN [tk EXCEPT !.gbRet = v, !.nb = v - tk.cost, !.pc = "pe_debit"]
  ELSE [tk EXCEPT !.gbRet = v, !.pc = "raw_select"]

\* What follows the return of getOrganizationCreditBalanceFromDB with value v:
\* processEventWithCredits compares it with the cost; addCreditsToOrganization
\* drops it and reads the raw balance.
GbReturn(tk, v) ==
  IF tk.kind = "cbe"
  THEN IF v >= tk.cost
       THEN [tk EXCEPT !.gbRet = v, !.nb = v - tk.cost, !.pc = "pe_debit"]
       ELSE [tk EXCEPT !.gbRet = v, !.pc = "pe_insufficient"]
  ELSE IF tk.kind = "gb"
  THEN [tk EXCEPT !.gbRet = v, !.pc = "done", !.ret = "resolved"]
  ELSE [tk EXCEPT !.gbRet = v, !.pc = "raw_select"]

\* The test of the flag that ignores it and grants on every read.
InitialCreditAlwaysPending(rec) == TRUE

\* if (creditRecord.initial_credit_applied === false)
InitialCreditPending(rec) == rec.applied = FALSE

\* getOrganizationCreditBalanceFromDB, the select().single().
GbSelect(t, ok) ==
  LET tk == tasks[t]
      rec == organization_credits[tk.org]
  IN /\ tk.pc = "gb_select"
     /\ SetTask(t, IF ~ok THEN Throw(tk, "fetchError")
                   ELSE IF ~rec.exists THEN [tk EXCEPT !.pc = "gb_insert"]
                   ELSE IF InitialCreditPending(rec)
                        THEN [tk EXCEPT !.pc = "gb_update",
                                        !.nb = rec.bal + INITIAL_CREDIT_AMOUNT_USD]
                        ELSE GbReturn(tk, rec.bal))
     /\ UNCHANGED << organization_credits, billable_events, credit_purchases,
                     credit_transactions, opening,
                     organization, user, web_calls >>

\* getOrganizationCreditBalanceFromDB, the insert of the initial record. The
\* key organization_id rejects a second row for the organization.
GbInsert(t, ok) ==
  LET tk == tasks[t]
      fails == ~ok \/ organization_credits[tk.org].exists
  IN /\ tk.pc = "gb_insert"
     /\ organization_credits' =
          IF fails THEN organization_credits
          ELSE [organization_credits EXCEPT ![tk.org] =
                  [exists |-> TRUE, bal |-> INITIAL_CREDIT_AMOUNT_USD,
                   applied |-> TRUE]]
     /\ SetTask(t, IF fails THEN Throw(tk, "insertError")
                   ELSE GbReturn(tk, INITIAL_CREDIT_AMOUNT_USD))
     /\ UNCHANGED << billable_events, credit_purchases, credit_transactions,
                     opening,
                     organization, user, web_calls >>

\* getOrganizationCreditBalanceFromDB, the update that applies the initial
\* credit to a record that lacks it.
GbUpdate(t, ok) ==
  LET tk == tasks[t]
  IN /\ tk.pc = "gb_update"
     /\ organization_credits' =
          IF ok /\ organization_credits[tk.org].exists
          THEN [organization_credits EXCEPT ![tk.org].bal = tk.nb,
                                            ![tk.org].applied = TRUE]
          ELSE organization_credits
     /\ SetTask(t, IF ok THEN GbReturn(tk, tk.nb) ELSE Throw(tk, "updateError"))
     /\ UNCHANGED << billable_events, credit_purchases, credit_transactions,
                     opening,
                     organization, user, web_calls >>

\* -------------------------------------------------------- billable_events

\* updateBillableEventStatus: an error is logged and null returned, never
\* thrown.
updateBillableEventStatus(events, eventId, status, ok) ==
  IF ok THEN [events EXCEPT ![eventId].status = status] ELSE events

\* const calculated_cost_usd = calculateInterviewCost(duration_seconds); the
\* cost_usd parameter is not read.
CalculatedCost(duration_seconds, cost_usd) ==
  calculateInterviewCost(duration_seconds)

\* processEventWithCredits that reads the balance for a free event too.
ProcessEventEntryNoFreeCheck(cost_usd) == "gb_select"

\* processEventWithCredits up to its first await: the status update of a
\* free event, the balance read of any other.
ProcessEventEntry(cost_usd) ==
  IF cost_usd = 0 THEN "pe_no_charge" ELSE "gb_select"

\* createBillableEvent whose failed insert leaves the row behind.
CreateBillableEventKeepsFailedRow(t, org, duration_seconds, cost_usd, ok) ==
  LET cost == CalculatedCost(duration_seconds, cost_usd)
      row == [org |-> org, dur |-> duration_seconds, cost |-> cost,
              status |-> "pending_credit_check"]
      tk == [IdleTask EXCEPT !.kind = "cbe", !.org = org]
  IN /\ MayStart(t)
     /\ billable_events' = Append(billable_events, row)
     /\ SetTask(t, IF ~ok THEN [tk EXCEPT !.pc = "done", !.ret = "null"]
                   ELSE [tk EXCEPT !.evt = Len(billable_events) + 1,
                                   !.cost = cost,
                                   !.ret = "insertedData",
                                   !.pc = ProcessEventEntry(cost)])
     /\ UNCHANGED << organization_credits, credit_purchases,
                     credit_transactions, opening, organization, user, web_calls >>

\* createBillableEvent up to its return: the insert of the row, then the
\* un-awaited call of processEventWithCredits, which runs to its first await.
CreateBillableEvent(t, org, duration_seconds, cost_usd, ok) ==
  LET cost == CalculatedCost(duration_seconds, cost_usd)
      row == [org |-> org, dur |-> duration_seconds, cost |-> cost,
              status |-> "pending_credit_check"]
      tk == [IdleTask EXCEPT !.kind = "cbe", !.org = org]
  IN /\ MayStart(t)
     /\ billable_events' = IF ok THEN Append(billable_events, row)
                           ELSE billable_events
     /\ SetTask(t, IF ~ok THEN [tk EXCEPT !.pc = "done", !.ret = "null"]
                   ELSE [tk EXCEPT !.evt = Len(billable_events) + 1,
                                   !.cost = cost,
                                   !.ret = "insertedData",
                                   !.pc = ProcessEventEntry(cost)])
     /\ UNCHANGED << organization_credits, credit_purchases,
                     credit_transactions, opening,
                     organization, user, web_calls >>

\* saveResponse up to the answer of its update of the response: null on an
\* error or when no row matched; the updated rows when the duration is not
\* positive; else on to the interview of the response.
SaveResponse(t, call_id, duration, ok) ==
  LET tk == [IdleTask EXCEPT !.kind = "cbe", !.call = call_id,
                             !.dur = duration]
      rows == updatedResponseData(call_id)
  IN /\ MayStart(t)
     /\ SetTask(t, IF ~ok \/ Len(rows) = 0
                   THEN [tk EXCEPT !.pc = "done", !.ret = "null"]
                   ELSE IF duration > 0
                   THEN [tk EXCEPT !.pc = "sr_interview"]
                   ELSE [tk EXCEPT !.pc = "done",
                                   !.ret = "updatedResponseData"])
     /\ UNCHANGED << organization_credits, billable_events, credit_purchases,
                     credit_transactions, opening, organization, user, web_calls >>

\* saveResponse, the answer of InterviewService.getInterviewById: the
\* interview with its organization, or nothing (logged, and the updated rows
\* are returned).
SrInterview(t, found) ==
  LET tk == tasks[t]
  IN /\ tk.pc = "sr_interview"
     /\ SetTask(t, IF found THEN [tk EXCEPT !.org = "org1", !.pc = "sr_create"]
                   ELSE [tk EXCEPT !.pc = "done",
                                   !.ret = "updatedResponseData"])
     /\ UNCHANGED << organization_credits, billable_events, credit_purchases,
                     credit_transactions, opening, organization, user, web_calls >>

\* saveResponse, the awaited createBillableEvent: the insert of the event
\* with the calculated cost, the un-awaited processEventWithCredits up to its
\* first await, and the return of the updated rows.
SrCreate(t, ok) ==
  LET tk == tasks[t]
      cost == CalculatedCost(tk.dur, calculateInterviewCost(tk.dur))
      row == [org |-> tk.org, dur |-> tk.dur, cost |-> cost,
              status |-> "pending_credit_check"]
  IN /\ tk.pc = "sr_create"
     /\ billable_events' = IF ok THEN Append(billable_events, row)
                           ELSE billable_events
     /\ SetTask(t, IF ~ok THEN [tk EXCEPT !.pc = "done",
                                          !.ret = "updatedResponseData"]
                   ELSE [tk EXCEPT !.evt = Len(billable_events) + 1,
                                   !.cost = cost,
                                   !.ret = "updatedResponseData",
                                   !.pc = ProcessEventEntry(cost)])
     /\ UNCHANGED << organization_credits, credit_purchases,
                     credit_transactions, opening, organization, user, web_calls >>

\* createBillableEvent of the billing.service.ts that inserts the event as
\* 'pending_payment': the row takes the cost_usd its caller passed, and no
\* processing follows.
CreateBillableEventPendingPayment(t, org, duration_seconds, cost_usd, ok) ==
  LET row == [org |-> org, dur |-> duration_seconds, cost |-> cost_usd,
              status |-> "pending_payment"]
      tk == [IdleTask EXCEPT !.kind = "cbe_pending_payment", !.org = org,
                             !.pc = "done"]
  IN /\ MayStart(t)
     /\ billable_events' = IF ok THEN Append(billable_events, row)
                           ELSE billable_events
     /\ SetTask(t, IF ok THEN [tk EXCEPT !.evt = Len(billable_events) + 1,
                                         !.cost = cost_usd,
                                         !.ret = "insertedData"]
                   ELSE [tk EXCEPT !.ret = "null"])
     /\ UNCHANGED << organization_credits, credit_purchases,
                     credit_transactions, opening,
                     organization, user, web_calls >>

\* processEventWithCredits, cost_usd === 0.
PeNoCharge(t, ok) ==
  LET tk == tasks[t]
  IN /\ tk.pc = "pe_no_charge"
     /\ billable_events' =
          updateBillableEventStatus(billable_events, tk.evt, "no_charge", ok)
     /\ SetTask(t, [tk EXCEPT !.pc = "done"])
     /\ UNCHANGED << organization_credits, credit_purchases,
                     credit_transactions, opening,
                     organization, user, web_calls >>

\* processEventWithCredits, currentBalance >= cost_usd: the write of
\* newBalance = currentBalance - cost_usd.
PeDebit(t, ok) ==
  LET tk == tasks[t]
  IN /\ tk.pc = "pe_debit"
     /\ organization_credits' =
          IF ok THEN updateOrganizationCreditBalanceInDB(
                       organization_credits, tk.org, tk.nb)
          ELSE organization_credits
     /\ SetTask(t, IF ok THEN [tk EXCEPT !.pc = "pe_paid"]
                   ELSE Throw(tk, "updateError"))
     /\ UNCHANGED << billable_events, credit_purchases, credit_transactions,
                     opening,
                     organization, user, web_calls >>

\* PePaid falling through to the insufficient-credits branch (a missing else).
PePaidFallsThrough(t, ok) ==
  LET tk == tasks[t]
  IN /\ tk.pc = "pe_paid"
     /\ billable_events' =
          [billable_events EXCEPT ![tk.evt].status = "paid_by_credits"]
     /\ SetTask(t, [tk EXCEPT !.pc = "pe_insufficient"])
     /\ UNCHANGED << organization_credits, credit_purchases,
                     credit_transactions, opening,
                     organization, user, web_calls >>

\* processEventWithCredits, the status update after the debit.
PePaid(t, ok) ==
  LET tk == tasks[t]
  IN /\ tk.pc = "pe_paid"
     /\ billable_events' =
          updateBillableEventStatus(billable_events, tk.evt,
                                    "paid_by_credits", ok)
     /\ SetTask(t, [tk EXCEPT !.pc = "done"])
     /\ UNCHANGED << organization_credits, credit_purchases,
                     credit_transactions, opening,
                     organization, user, web_calls >>

\* processEventWithCredits, currentBalance < cost_usd.
PeInsufficient(t, ok) ==
  LET tk == tasks[t]
  IN /\ tk.pc = "pe_insufficient"
     /\ billable_events' =
          updateBillableEventStatus(billable_events, tk.evt,
                                    "payment_failed_insufficient_credits", ok)
     /\ SetTask(t, [tk EXCEPT !.pc = "done"])
     /\ UNCHANGED << organization_credits, credit_purchases,
                     credit_transactions, opening,
                     organization, user, web_calls >>

\* -------------------------------------------------------- credit_purchases

\* The insert into credit_purchases answers 23505 (unique_violation) when a
\* row with the same id or the same lemonsqueezy_order_id exists.
UniqueViolation(purchases, p) ==
  \E r \in purchases : r.id = p.purchase \/ r.order = p.order

\* amount_usd = totalFromAttributes / 100, in units of 10^-4 USD.
amount_usd(total) == (total * Scale) \div CentsPerUsd

\* credits_granted = amount_usd > 0 ? Math.floor(amount_usd * 10) : 0, with
\* amount_usd = total / 100.
credits_granted(total) ==
  IF total > 0 THEN (total * CreditsPerUsd) \div CentsPerUsd ELSE 0

\* The amount addCreditsToOrganization(organizationId, credits_granted) adds
\* to current_balance_usd: credits_granted, read as an amount in USD.
CreditedAmount(credits) == credits * Scale

\* update({status, ...}).eq('id', creditPurchaseId): 'processed' comes with
\* processed_at, 'failed' with failure_reason.
SetPurchaseStatus(purchases, id, status, reason) ==
  { IF r.id = id
    THEN [r EXCEPT !.status = status, !.reason = reason,
                   !.processed_at = (status = "processed")]
    ELSE r :
    r \in purchases }

\* AfterPurchaseInsert that treats a unique violation like a fresh insert.
AfterPurchaseInsertNoDuplicateCheck(tk, ok, dup) ==
  IF ~ok THEN [tk EXCEPT !.pc = "done", !.ret = "500_recording_purchase"]
  ELSE IF tk.credits > 0
       THEN [tk EXCEPT !.called = TRUE, !.pc = "gb_select"]
       ELSE [tk EXCEPT !.pc = "wh_processed"]

\* AfterPurchaseInsert that goes on to the crediting after a database error.
AfterPurchaseInsertIgnoresError(tk, ok, dup) ==
  IF ok /\ dup THEN [tk EXCEPT !.pc = "done", !.ret = "200_duplicate"]
  ELSE IF tk.credits > 0
       THEN [tk EXCEPT !.called = TRUE, !.pc = "gb_select"]
       ELSE [tk EXCEPT !.pc = "wh_processed"]

\* The webhook after the answer of the insert: 500 on a database error, 200
\* "Duplicate event" on 23505, else on to addCreditsToOrganization when
\* credits_granted > 0 and to the status update when it is 0.
AfterPurchaseInsert(tk, ok, dup) ==
  IF ~ok THEN [tk EXCEPT !.pc = "done", !.ret = "500_recording_purchase"]
  ELSE IF dup THEN [tk EXCEPT !.pc = "done", !.ret = "200_duplicate"]
  ELSE IF tk.credits > 0
       THEN [tk EXCEPT !.called = TRUE, !.pc = "gb_select"]
       ELSE [tk EXCEPT !.pc = "wh_processed"]

\* Buffer.from(signature, 'utf8'): one byte per character of the header.
BufferFromUtf8(sig) ==
  [key |-> sig.key, body |-> sig.body, len |-> sig.hex + sig.extra,
   extra |-> sig.extra]

\* Buffer.from(signature, 'hex'): one byte per two hexadecimal characters,
\* decoding stops at the first character that is not hexadecimal.
BufferFromHex(sig) ==
  [key |-> sig.key, body |-> sig.body, len |-> sig.hex \div 2, extra |-> 0]

\* crypto.timingSafeEqual: throws a RangeError on buffers of different
\* length, else compares the bytes.
timingSafeEqual(a, b) ==
  IF a.len # b.len THEN "RangeError"
  ELSE IF a = b THEN "true" ELSE "false"

\* The verification that accepts any request that carries a header.
VerifyHeaderPresent(req) ==
  IF req.signature = NoSignature THEN "400_missing_signature"
  ELSE IF req.secret = "" THEN "500_secret_not_configured"
  ELSE "verified"

\* POST /api/billing/webhook, the checks before the payload is parsed: the
\* answer they return, or "verified".
VerifyRequest(req) ==
  IF req.signature = NoSignature THEN "400_missing_signature"
  ELSE IF req.secret = "" THEN "500_secret_not_configured"
  ELSE LET digest == BufferFromUtf8(createHmac(req.secret, req.payload.order))
           receivedSignatureBuffer == BufferFromUtf8(req.signature)
           equal == timingSafeEqual(digest, receivedSignatureBuffer)
       IN IF equal = "RangeError" THEN "400_invalid_signature_format"
          ELSE IF equal = "false" THEN "400_invalid_signature"
          ELSE "verified"

\* verifySignature of the CreditService-based webhook handler.
verifySignature(req) ==
  IF req.secret = "" THEN FALSE
  ELSE IF req.signature = NoSignature THEN FALSE
  ELSE LET computedDigestBuffer ==
             BufferFromHex(createHmac(req.secret, req.payload.order))
           signatureBuffer == BufferFromHex(req.signature)
       IN IF computedDigestBuffer.len # signatureBuffer.len THEN FALSE
          ELSE timingSafeEqual(computedDigestBuffer, signatureBuffer) = "true"

\* A webhook request answered before its payload is parsed.
Rejected(t, kind, req, response) ==
  /\ MayStart(t)
  /\ SetTask(t, [IdleTask EXCEPT !.kind = kind, !.req = req, !.pc = "done",
                                 !.ret = response])
  /\ UNCHANGED << organization_credits, billable_events, credit_purchases,
                  credit_transactions, opening, organization, user, web_calls >>

\* POST /api/billing/webhook after the verification of the signature, for
\* an order_created event: up to the answer of the insert into
\* credit_purchases (step 1, idempotency).
OrderCreated(t, req, ok) ==
  LET p == req.payload
      credits == credits_granted(p.total)
      tk == [IdleTask EXCEPT !.kind = "wh", !.org = p.org, !.p = p,
                             !.credits = credits, !.req = req]
      dup == UniqueViolation(credit_purchases, p)
      row == [id |-> p.purchase, order |-> p.order, org |-> p.org,
              credits |-> credits, status |-> "pending_processing",
              reason |-> "none", processed_at |-> FALSE]
  IN /\ MayStart(t)
     /\ credit_purchases' = IF ok /\ ~dup THEN credit_purchases \cup {row}
                            ELSE credit_purchases
     /\ SetTask(t, AfterPurchaseInsert(tk, ok, dup))
     /\ UNCHANGED << organization_credits, billable_events,
                     credit_transactions, opening,
                     organization, user, web_calls >>

\* The order_created webhook of payload p from a sender that holds the
\* secret.
Webhook(t, p, ok) == OrderCreated(t, SignedRequest(p), ok)

\* A webhook request acknowledged without processing.
Acknowledged(t, kind, req, response) == Rejected(t, kind, req, response)

\* POST /api/billing/webhook: the verification, the checks of the parsed
\* body (made before the event name is looked at), then the event.
POST(t, req, ok) ==
  IF VerifyRequest(req) # "verified"
  THEN Rejected(t, "wh", req, VerifyRequest(req))
  ELSE IF req.event.custom_data = "absent"
  THEN Rejected(t, "wh", req, "400_missing_event_data")
  ELSE IF req.event.custom_data = "empty"
  THEN Rejected(t, "wh", req, "400_missing_custom_data")
  ELSE IF req.event.event_name = "order_created"
  THEN OrderCreated(t, req, ok)
  ELSE Acknowledged(t, "wh", req, "200_unhandled_event")

\* addCreditsToOrganization called by itself, up to its first await: the
\* check of amount_usd, then getOrganizationCreditBalanceFromDB.
AddCreditsToOrganization(t, org, amount) ==
  LET tk == [IdleTask EXCEPT !.kind = "act", !.org = org,
                             !.amount = amount]
  IN /\ MayStart(t)
     /\ SetTask(t, IF amount.type # "number" \/ AtMostZero(amount)
                   THEN Throw(tk, "Credit amount must be a positive number.")
                   ELSE [tk EXCEPT !.called = TRUE, !.pc = "gb_select"])
     /\ UNCHANGED << organization_credits, billable_events, credit_purchases,
                     credit_transactions, opening, organization, user, web_calls >>

\* The functions of the balance store called by themselves, up to their
\* database call.
GetOrganizationCreditBalanceFromDB(t, org) ==
  /\ MayStart(t)
  /\ SetTask(t, [IdleTask EXCEPT !.kind = "gb", !.org = org, !.called = TRUE,
                                 !.pc = "gb_select"])
  /\ UNCHANGED << organization_credits, billable_events, credit_purchases,
                  credit_transactions, opening, organization, user, web_calls >>

GetRawCreditBalanceForUpdate(t, org) ==
  /\ MayStart(t)
  /\ SetTask(t, [IdleTask EXCEPT !.kind = "raw", !.org = org,
                                 !.pc = "raw_select"])
  /\ UNCHANGED << organization_credits, billable_events, credit_purchases,
                  credit_transactions, opening, organization, user, web_calls >>

UpdateOrganizationCreditBalanceInDB(t, org, newBalance) ==
  /\ MayStart(t)
  /\ SetTask(t, [IdleTask EXCEPT !.kind = "ub", !.org = org, !.nb = newBalance,
                                 !.pc = "ac_update"])
  /\ UNCHANGED << organization_credits, billable_events, credit_purchases,
                  credit_transactions, opening, organization, user, web_calls >>

\* A raw read that creates the missing record with the initial credit, as
\* getOrganizationCreditBalanceFromDB does.
RawSelectGrants(t, ok) ==
  LET tk == tasks[t]
      rec == organization_credits[tk.org]
      currentBalance == IF rec.exists THEN rec.bal
                        ELSE INITIAL_CREDIT_AMOUNT_USD
  IN /\ tk.pc = "raw_select"
     /\ SetTask(t, IF tk.kind = "raw"
                   THEN [tk EXCEPT !.rawRet = currentBalance, !.pc = "done",
                                   !.ret = "resolved"]
                   ELSE [tk EXCEPT !.rawRet = currentBalance,
                                   !.pc = "ac_update",
                                   !.nb = currentBalance])
     /\ organization_credits' =
          IF rec.exists THEN organization_credits
          ELSE [organization_credits EXCEPT ![tk.org] =
                  [exists |-> TRUE, bal |-> INITIAL_CREDIT_AMOUNT_USD,
                   applied |-> TRUE]]
     /\ UNCHANGED << billable_events, credit_purchases, credit_transactions,
                     opening, organization, user, web_calls >>

\* addCreditsToOrganization, getRawCreditBalanceForUpdate: the stored balance,
\* 0 when there is no record (PGRST116); newBalance = currentBalance + amount
\* (NaN when the amount is, which the invocation's amount keeps).
RawSelect(t, ok) ==
  LET tk == tasks[t]
      rec == organization_credits[tk.org]
      currentBalance == IF rec.exists THEN rec.bal ELSE 0
      added == IF tk.kind = "act" THEN tk.amount.v
               ELSE CreditedAmount(tk.credits)
  IN /\ tk.pc = "raw_select"
     /\ SetTask(t, IF ~ok THEN Throw(tk, "fetchError")
                   ELSE IF tk.kind = "raw"
                   THEN [tk EXCEPT !.rawRet = currentBalance, !.pc = "done",
                                   !.ret = "resolved"]
                   ELSE [tk EXCEPT !.rawRet = currentBalance,
                                   !.pc = "ac_update",
                                   !.nb = currentBalance + added])
     /\ UNCHANGED << organization_credits, billable_events, credit_purchases,
                     credit_transactions, opening,
                     organization, user, web_calls >>

\* AcUpdate that goes on without writing the balance.
AcUpdateSkipsWrite(t, ok) ==
  LET tk == tasks[t]
  IN /\ tk.pc = "ac_update"
     /\ SetTask(t, IF ok THEN [tk EXCEPT !.pc = "wh_processed"]
                   ELSE Throw(tk, "updateError"))
     /\ UNCHANGED << organization_credits, billable_events, credit_purchases,
                     credit_transactions, opening, organization, user, web_calls >>

\* The return of addCreditsToOrganization: to the webhook, or to a direct
\* caller.
AddCreditsToOrganizationReturn(tk) ==
  IF tk.kind = "wh" THEN [tk EXCEPT !.pc = "wh_processed"]
  ELSE [tk EXCEPT !.pc = "done", !.ret = "resolved"]

\* addCreditsToOrganization, updateOrganizationCreditBalanceInDB(newBalance).
\* A newBalance of NaN is sent as null: the column either refuses it, or
\* holds null from then on, which every later use reads as 0.
AcUpdate(t, ok) ==
  LET tk == tasks[t]
      outcomes == IF tk.kind = "act" /\ tk.amount.nan
                  THEN {"refused", "null"} ELSE {"stored"}
  IN /\ tk.pc = "ac_update"
     /\ \E outcome \in outcomes :
          LET written == ok /\ outcome # "refused"
              newBalance == IF outcome = "null" THEN 0 ELSE tk.nb
          IN /\ organization_credits' =
                  IF written THEN updateOrganizationCreditBalanceInDB(
                                    organization_credits, tk.org, newBalance)
                  ELSE organization_credits
             /\ SetTask(t, IF written THEN AddCreditsToOrganizationReturn(tk)
                           ELSE Throw(tk, "updateError"))
     /\ UNCHANGED << billable_events, credit_purchases, credit_transactions,
                     opening,
                     organization, user, web_calls >>

\* WhProcessed that answers 200 whether or not its update succeeded.
WhProcessedSoftSuccess(t, ok) ==
  LET tk == tasks[t]
  IN /\ tk.pc = "wh_processed"
     /\ credit_purchases' =
          IF ok THEN SetPurchaseStatus(credit_purchases, tk.p.purchase,
                                       "processed", "none")
          ELSE credit_purchases
     /\ SetTask(t, [tk EXCEPT !.pc = "done", !.ret = "200_processed"])
     /\ UNCHANGED << organization_credits, billable_events,
                     credit_transactions, opening,
                     organization, user, web_calls >>

\* The webhook marks the purchase processed and answers 200, or 500 when
\* that update fails.
WhProcessed(t, ok) ==
  LET tk == tasks[t]
  IN /\ tk.pc = "wh_processed"
     /\ credit_purchases' =
          IF ok THEN SetPurchaseStatus(credit_purchases, tk.p.purchase,
                                       "processed", "none")
          ELSE credit_purchases
     /\ SetTask(t, [tk EXCEPT !.pc = "done",
                              !.ret = IF ok THEN "200_processed"
                                      ELSE "500_finalize_status"])
     /\ UNCHANGED << organization_credits, billable_events,
                     credit_transactions, opening,
                     organization, user, web_calls >>

\* WhFailed that deletes the purchase row instead of marking it failed.
WhFailedRemovesPurchase(t, ok) ==
  LET tk == tasks[t]
  IN /\ tk.pc = "wh_failed"
     /\ credit_purchases' =
          IF ok THEN { r \in credit_purchases : r.id # tk.p.purchase }
          ELSE credit_purchases
     /\ SetTask(t, [tk EXCEPT !.pc = "done", !.ret = "500_process_credits"])
     /\ UNCHANGED << organization_credits, billable_events,
                     credit_transactions, opening, organization, user, web_calls >>

\* WhFailed that answers 200 after marking the purchase failed.
WhFailedAnswersSuccess(t, ok) ==
  LET tk == tasks[t]
  IN /\ tk.pc = "wh_failed"
     /\ credit_purchases' =
          IF ok THEN SetPurchaseStatus(credit_purchases, tk.p.purchase,
                                       "failed", tk.err)
          ELSE credit_purchases
     /\ SetTask(t, [tk EXCEPT !.pc = "done", !.ret = "200_processed"])
     /\ UNCHANGED << organization_credits, billable_events,
                     credit_transactions, opening, organization, user, web_calls >>

\* The webhook's catch block: mark the purchase failed with the error's
\* message and answer 500, whether or not that update succeeds.
WhFailed(t, ok) ==
  LET tk == tasks[t]
  IN /\ tk.pc = "wh_failed"
     /\ credit_purchases' =
          IF ok THEN SetPurchaseStatus(credit_purchases, tk.p.purchase,
                                       "failed", tk.err)
          ELSE credit_purchases
     /\ SetTask(t, [tk EXCEPT !.pc = "done", !.ret = "500_process_credits"])
     /\ UNCHANGED << organization_credits, billable_events,
                     credit_transactions, opening,
                     organization, user, web_calls >>

\* ------------------------------------------- organization.credits (CreditService)

\* CreditService.addCredits up to the answer of getCreditBalance, which
\* returns 0 when the select fails; newBalance = currentBalance + amountToAdd.
AddCredits(t, org, op, ok) ==
  LET currentBalance == IF ok THEN organization[org] ELSE 0
      tk == [IdleTask EXCEPT !.kind = "addCredits", !.org = org,
                             !.amountToAdd = op.amount,
                             !.transactionType = op.type]
  IN /\ MayStart(t)
     /\ SetTask(t, [tk EXCEPT !.gbRet = currentBalance,
                              !.nb = currentBalance + op.amount,
                              !.pc = "cs_update"])
     /\ UNCHANGED << organization_credits, billable_events, credit_purchases,
                     credit_transactions, opening, organization, user, web_calls >>

\* The return of addCredits: to its caller, or in the webhook handler that
\* awaits it the answer to the sender (500 when it returned false).
AddCreditsReturn(tk, success) ==
  IF tk.kind = "wh_credits"
  THEN [tk EXCEPT !.pc = "done",
                  !.ret = IF success THEN "200_received"
                          ELSE "500_update_credits"]
  ELSE IF tk.kind = "getClientById"
  THEN [tk EXCEPT !.pc = "done", !.ret = "data[0]"]
  ELSE IF tk.kind = "retell"
  THEN [tk EXCEPT !.pc = "done", !.ret = "received",
                  !.deductionSuccess = IF success THEN "true" ELSE "false"]
  ELSE [tk EXCEPT !.pc = "done",
                  !.ret = IF success THEN "true" ELSE "false"]

\* POST of the CreditService-based webhook handler: the secret and
\* verifySignature, the event name and the order's status, then for a paid
\* order_created CreditService.addCredits of amountInUSD = total / 100 up to
\* the answer of getCreditBalance.
PostCreditService(t, req, ok) ==
  LET p == req.payload
      amountInUSD == amount_usd(p.total)
      currentBalance == IF ok THEN organization[p.org] ELSE 0
      tk == [IdleTask EXCEPT !.kind = "wh_credits", !.org = p.org, !.p = p,
                             !.req = req, !.called = TRUE,
                             !.amountToAdd = amountInUSD,
                             !.transactionType = "recharge"]
  IN IF req.secret = ""
     THEN Rejected(t, "wh_credits", req, "500_secret_not_configured")
     ELSE IF ~verifySignature(req)
     THEN Rejected(t, "wh_credits", req, "400_invalid_signature")
     ELSE IF req.event.event_name # "order_created"
             \/ req.event.status # "paid"
     THEN Acknowledged(t, "wh_credits", req, "200_received")
     ELSE IF req.event.custom_data # "ids"
     THEN Rejected(t, "wh_credits", req, "400_missing_custom_data")
     ELSE /\ MayStart(t)
          /\ SetTask(t, [tk EXCEPT !.gbRet = currentBalance,
                                   !.nb = currentBalance + amountInUSD,
                                   !.pc = "cs_update"])
          /\ UNCHANGED << organization_credits, billable_events,
                          credit_purchases, credit_transactions, opening,
                          organization, user, web_calls >>

\* addCredits, the answer of getCreditBalance when a caller's own database
\* call came before it: the entity's credits, 0 when the select fails or
\* finds no row; newBalance = currentBalance + amountToAdd.
CsBalance(t, ok) ==
  LET tk == tasks[t]
      found == IF tk.entityType = "user" THEN user[tk.id].exists ELSE TRUE
      credits == IF tk.entityType = "user" THEN user[tk.id].credits
                 ELSE organization[tk.org]
      currentBalance == IF ok /\ found THEN credits ELSE 0
  IN /\ tk.pc = "cs_balance"
     /\ SetTask(t, [tk EXCEPT !.gbRet = currentBalance,
                              !.nb = currentBalance + tk.amountToAdd,
                              !.pc = "cs_update"])
     /\ UNCHANGED << organization_credits, billable_events, credit_purchases,
                     credit_transactions, opening, organization, user, web_calls >>

\* addCredits, update({ credits: newBalance }).eq('id', entityId) on the
\* entity's table; an error returns false.
CsUpdate(t, ok) ==
  LET tk == tasks[t]
  IN /\ tk.pc = "cs_update"
     /\ organization' = IF ok /\ tk.entityType = "organization"
                        THEN [organization EXCEPT ![tk.org] = tk.nb]
                        ELSE organization
     /\ user' = IF ok /\ tk.entityType = "user" /\ user[tk.id].exists
                THEN [user EXCEPT ![tk.id].credits = tk.nb]
                ELSE user
     /\ SetTask(t, IF ok THEN [tk EXCEPT !.pc = "cs_insert"]
                   ELSE AddCreditsReturn(tk, FALSE))
     /\ UNCHANGED << organization_credits, billable_events, credit_purchases,
                     credit_transactions, opening, web_calls >>

\* addCredits, the insert into credit_transactions; an error returns false
\* and the balance update is not rolled back.
CsInsert(t, ok) ==
  LET tk == tasks[t]
      transactionData == [org |-> IF tk.entityType = "organization"
                                  THEN tk.org ELSE "none",
                          user_id |-> IF tk.entityType = "user"
                                      THEN tk.id ELSE "none",
                          amount |-> tk.amountToAdd,
                          type |-> tk.transactionType,
                          payment_gateway_transaction_id |-> tk.p.order]
  IN /\ tk.pc = "cs_insert"
     /\ credit_transactions' =
          IF ok THEN Append(credit_transactions, transactionData)
          ELSE credit_transactions
     /\ SetTask(t, AddCreditsReturn(tk, ok))
     /\ UNCHANGED << organization_credits, billable_events, credit_purchases,
                     organization, opening, user, web_calls >>

\* ------------------------------------------------- Retell webhook (call_ended)

\* Math.round(x) of x = num/den >= 0: the nearest integer, halves up.
MathRound(num, den) == (2 * num + den) \div (2 * den)

\* totalCost of the Retell webhook: durationInSeconds / 60 * 0.20, then
\* Math.round(totalCost * 100) / 100, in 1/10000 USD.
totalCost(durationInSeconds) ==
  MathRound(durationInSeconds * CostPerMinuteCents, SecondsPerMinute)
    * (Scale \div CentsPerUsd)

\* CreditService.deductCredits: a deduction that is not positive returns
\* false; otherwise addCredits of -amountToDeduct, up to its await of
\* getCreditBalance.
DeductCredits(tk, entity, amountToDeduct, transactionType) ==
  IF amountToDeduct <= 0
  THEN AddCreditsReturn(tk, FALSE)
  ELSE [tk EXCEPT !.entityType = entity.type,
                  !.org = IF entity.type = "organization"
                          THEN entity.id ELSE "none",
                  !.id = IF entity.type = "user" THEN entity.id ELSE "none",
                  !.amountToAdd = 0 - amountToDeduct,
                  !.transactionType = transactionType,
                  !.pc = "cs_balance"]

\* A caller of CreditService.deductCredits(entityType, entityId,
\* amountToDeduct, 'interview_usage').
DeductCreditsCall(t, entity, amountToDeduct) ==
  LET tk == [IdleTask EXCEPT !.kind = "deductCredits"]
  IN /\ MayStart(t)
     /\ SetTask(t, DeductCredits(tk, entity, amountToDeduct,
                                 "interview_usage"))
     /\ UNCHANGED << organization_credits, billable_events, credit_purchases,
                     credit_transactions, opening, organization, user, web_calls >>

\* POST of the Retell webhook up to the answer of
\* ResponseService.updateResponse, whose result is only logged: 500 without
\* RETELL_API_KEY, 400 without signature, 401 when Retell.verify rejects it,
\* 400 for an ended call without call_id; other events are acknowledged.
RetellPost(t, r) ==
  LET tk == [IdleTask EXCEPT !.kind = "retell", !.call = r.call_id,
                             !.dur = r.duration]
      answer(response) == [tk EXCEPT !.pc = "done", !.ret = response]
  IN /\ MayStart(t)
     /\ SetTask(t, IF r.apiKey = "" THEN answer("500_configuration")
                   ELSE IF r.signature = "missing"
                   THEN answer("400_missing_signature")
                   ELSE IF r.signature # "valid"
                   THEN answer("401_invalid_signature")
                   ELSE IF r.event # "call_ended" THEN answer("received")
                   ELSE IF r.call_id = ""
                   THEN answer("400_call_id_missing")
                   ELSE [tk EXCEPT !.pc = "rt_response"])
     /\ UNCHANGED << organization_credits, billable_events, credit_purchases,
                     credit_transactions, opening, organization, user, web_calls >>

\* The answer of ResponseService.getResponseByCallId: a response with its
\* interview_id, or nothing.
RtResponse(t, found) ==
  LET tk == tasks[t]
  IN /\ tk.pc = "rt_response"
     /\ SetTask(t, IF found THEN [tk EXCEPT !.pc = "rt_interview"]
                   ELSE [tk EXCEPT !.pc = "done",
                                   !.ret = "200_internal_data_missing"])
     /\ UNCHANGED << organization_credits, billable_events, credit_purchases,
                     credit_transactions, opening, organization, user, web_calls >>

\* The answer of InterviewService.getInterviewById and what follows up to
\* deductCredits' first await: no interview, no payer, a duration <= 0 or a
\* cost that rounds to zero end the request without a deduction.
RtInterview(t, found, entity) ==
  LET tk == tasks[t]
      answer(response) == [tk EXCEPT !.pc = "done", !.ret = response]
  IN /\ tk.pc = "rt_interview"
     /\ SetTask(t, IF ~found THEN answer("200_interview_data_missing")
                   ELSE IF entity = NoEntity THEN answer("200_no_entity")
                   ELSE IF tk.dur <= 0 THEN answer("200_zero_duration")
                   ELSE IF totalCost(tk.dur) <= 0
                   THEN answer("200_cost_rounded_to_zero")
                   ELSE DeductCredits(tk, entity, totalCost(tk.dur),
                                      "interview_usage"))
     /\ UNCHANGED << organization_credits, billable_events, credit_purchases,
                     credit_transactions, opening, organization, user, web_calls >>

\* ------------------------------------------------------------ register-call

\* POST of register-call up to the answer of
\* InterviewService.getInterviewById: 400 without interviewer_id or
\* interview_id, 404 without interview, 500 when the interview names no payer.
RegisterCall(t, body, found, entity) ==
  LET tk == [IdleTask EXCEPT !.kind = "register-call"]
      answer(response) == [tk EXCEPT !.pc = "done", !.ret = response]
  IN /\ MayStart(t)
     /\ SetTask(t, IF body # "ids" THEN answer("400_missing_ids")
                   ELSE IF ~found THEN answer("404_interview_not_found")
                   ELSE IF entity = NoEntity THEN answer("500_no_payer")
                   ELSE [tk EXCEPT !.entityType = entity.type,
                                   !.org = IF entity.type = "organization"
                                           THEN entity.id ELSE "none",
                                   !.id = IF entity.type = "user"
                                          THEN entity.id ELSE "none",
                                   !.pc = "rc_balance"])
     /\ UNCHANGED << organization_credits, billable_events, credit_purchases,
                     credit_transactions, opening, organization, user,
                     web_calls >>

\* A register-call whose balance check lets every payer through.
RcBalanceUnchecked(t, ok) ==
  LET tk == tasks[t]
  IN /\ tk.pc = "rc_balance"
     /\ SetTask(t, [tk EXCEPT !.gbRet = IF ok /\ tk.entityType # "user"
                                        THEN organization[tk.org] ELSE 0,
                              !.pc = "rc_interviewer"])
     /\ UNCHANGED << organization_credits, billable_events, credit_purchases,
                     credit_transactions, opening, organization, user,
                     web_calls >>

\* register-call, the answer of CreditService.getCreditBalance (0 when the
\* select fails or finds no row): below minimumBalanceThreshold the answer is
\* 402.
RcBalance(t, ok) ==
  LET tk == tasks[t]
      found == IF tk.entityType = "user" THEN user[tk.id].exists ELSE TRUE
      credits == IF tk.entityType = "user" THEN user[tk.id].credits
                 ELSE organization[tk.org]
      currentBalance == IF ok /\ found THEN credits ELSE 0
  IN /\ tk.pc = "rc_balance"
     /\ SetTask(t, IF currentBalance < minimumBalanceThreshold
                   THEN [tk EXCEPT !.gbRet = currentBalance, !.pc = "done",
                                   !.ret = "402_insufficient_credits"]
                   ELSE [tk EXCEPT !.gbRet = currentBalance,
                                   !.pc = "rc_interviewer"])
     /\ UNCHANGED << organization_credits, billable_events, credit_purchases,
                     credit_transactions, opening, organization, user,
                     web_calls >>

\* register-call, the answer of InterviewerService.getInterviewer: 500
\* without interviewer or agent_id.
RcInterviewer(t, found) ==
  LET tk == tasks[t]
  IN /\ tk.pc = "rc_interviewer"
     /\ SetTask(t, IF found THEN [tk EXCEPT !.pc = "rc_create"]
                   ELSE [tk EXCEPT !.pc = "done",
                                   !.ret = "500_interviewer"])
     /\ UNCHANGED << organization_credits, billable_events, credit_purchases,
                     credit_transactions, opening, organization, user,
                     web_calls >>

\* register-call, retellClient.call.createWebCall: the created call is
\* returned with 200; a response without call_id and an exception are 500.
RcCreate(t, outcome) ==
  LET tk == tasks[t]
  IN /\ tk.pc = "rc_create"
     /\ web_calls' = IF outcome = "call" THEN web_calls \cup {t}
                     ELSE web_calls
     /\ SetTask(t, [tk EXCEPT !.pc = "done",
                              !.ret = IF outcome = "call"
                                      THEN "200_callDetail"
                                      ELSE IF outcome = "no_call_id"
                                      THEN "500_register_call"
                                      ELSE "500_internal"])
     /\ UNCHANGED << organization_credits, billable_events, credit_purchases,
                     credit_transactions, opening, organization, user >>

\* ------------------------------------------------------- getClientById

\* Values of the organization_id argument and column: none, or an id.
OrganizationIds == {"none"} \cup Orgs

\* getClientById up to the answer of the select on "user", whose error is
\* not looked at: without data, or without a row when an email is given, the
\* insert follows; without a row and without email data[0] is undefined and
\* the TypeError is caught; a row with another organization_id is updated.
GetClientById(t, id, email, organization_id, ok) ==
  LET tk == [IdleTask EXCEPT !.kind = "getClientById", !.id = id,
                             !.email = email, !.org = organization_id]
      data == IF user[id].exists THEN << user[id] >> ELSE << >>
  IN /\ MayStart(t)
     /\ SetTask(t, IF ~ok \/ (Len(data) = 0 /\ email)
                   THEN [tk EXCEPT !.pc = "gc_insert"]
                   ELSE IF Len(data) = 0
                   THEN [tk EXCEPT !.pc = "done", !.ret = "[]"]
                   ELSE IF data[1].organization_id # organization_id
                   THEN [tk EXCEPT !.pc = "gc_update"]
                   ELSE [tk EXCEPT !.pc = "done", !.ret = "data[0]"])
     /\ UNCHANGED << organization_credits, billable_events, credit_purchases,
                     credit_transactions, opening, organization, user, web_calls >>

\* getClientById, insert({ id, email, organization_id }) without select():
\* an error (the id is taken, or the call fails) returns []; returning says
\* whether the client hands back the inserted rows, and only then is
\* CreditService.addCredits('user', id, 2.00, 'initial') awaited.
GcInsert(t, ok, returning) ==
  LET tk == tasks[t]
      inserted == ok /\ ~user[tk.id].exists
  IN /\ tk.pc = "gc_insert"
     /\ user' = IF inserted
                THEN [user EXCEPT ![tk.id] =
                        [exists |-> TRUE, organization_id |-> tk.org,
                         credits |-> 0]]
                ELSE user
     /\ SetTask(t, IF ~inserted
                   THEN [tk EXCEPT !.pc = "done", !.ret = "[]"]
                   ELSE IF returning
                   THEN [tk EXCEPT !.entityType = "user",
                                   !.amountToAdd = INITIAL_CLIENT_CREDIT,
                                   !.transactionType = "initial",
                                   !.pc = "cs_balance"]
                   ELSE [tk EXCEPT !.pc = "done", !.ret = "null"])
     /\ UNCHANGED << organization_credits, billable_events, credit_purchases,
                     credit_transactions, opening, organization, web_calls >>

\* getClientById, update({ organization_id }).eq("id", id) without select():
\* an error returns []; with the updated rows handed back and an
\* organization_id given, CreditService.addCredits('organization',
\* organization_id, 2.00, 'initial') is awaited.
GcUpdate(t, ok, returning) ==
  LET tk == tasks[t]
  IN /\ tk.pc = "gc_update"
     /\ user' = IF ok /\ user[tk.id].exists
                THEN [user EXCEPT ![tk.id].organization_id = tk.org]
                ELSE user
     /\ SetTask(t, IF ~ok
                   THEN [tk EXCEPT !.pc = "done", !.ret = "[]"]
                   ELSE IF returning /\ user[tk.id].exists /\ tk.org # "none"
                   THEN [tk EXCEPT !.entityType = "organization",
                                   !.amountToAdd = INITIAL_CLIENT_CREDIT,
                                   !.transactionType = "initial",
                                   !.pc = "cs_balance"]
                   ELSE [tk EXCEPT !.pc = "done",
                                   !.ret = IF returning /\ user[tk.id].exists
                                           THEN "data[0]" ELSE "null"])
     /\ UNCHANGED << organization_credits, billable_events, credit_purchases,
                     credit_transactions, opening, organization, web_calls >>

\* ------------------------------------------------------------ specifications

\* A request arrives: a usage event, a payment webhook, or a caller of
\* CreditService.addCredits.
Arrive(t, ok) ==
  \/ \E o \in Orgs, d \in Durations, c \in CallerCosts :
       CreateBillableEvent(t, o, d, c, ok)
  \/ \E p \in Payloads : Webhook(t, p, ok)
  \/ \E o \in Orgs, op \in CreditOps : AddCredits(t, o, op, ok)

\* A suspended invocation resumes with the answer of its database call.
Resume(t, ok) ==
  \/ GbSelect(t, ok)
  \/ GbInsert(t, ok)
  \/ GbUpdate(t, ok)
  \/ PeNoCharge(t, ok)
  \/ PeDebit(t, ok)
  \/ PePaid(t, ok)
  \/ PeInsufficient(t, ok)
  \/ RawSelect(t, ok)
  \/ AcUpdate(t, ok)
  \/ WhProcessed(t, ok)
  \/ CsUpdate(t, ok)
  \/ CsInsert(t, ok)

\* The database call of this step succeeds, or fails within the budget.
Answer(ok) == /\ ok \/ faults < MaxFaults
              /\ faults' = IF ok THEN faults ELSE faults + 1

\* Concurrent invocations; any database call may fail.
Next ==
  \E t \in Tasks, ok \in BOOLEAN :
    /\ Answer(ok)
    /\ \/ t <= MaxActive /\ Arrive(t, ok)
       \/ Resume(t, ok)
       \/ WhFailed(t, ok)

Spec == Init /\ [][Next]_vars

\* One invocation at a time, processEventWithCredits included, and every
\* database call succeeds.
SeqNext ==
  \E t \in Tasks :
    /\ Answer(TRUE)
    /\ \/ AllDone /\ Arrive(t, TRUE)
       \/ Resume(t, TRUE)

SeqSpec == Init /\ [][SeqNext]_vars

\* One invocation at a time; any database call may fail.
FaultNext ==
  \E t \in Tasks, ok \in BOOLEAN :
    /\ Answer(ok)
    /\ \/ AllDone /\ Arrive(t, ok)
       \/ Resume(t, ok)
       \/ WhFailed(t, ok)

FaultSpec == Init /\ [][FaultNext]_vars

\* Concurrent invocations, every database call succeeds unless a constraint
\* rejects it.
RaceNext ==
  \E t \in Tasks :
    /\ Answer(TRUE)
    /\ \/ t <= MaxActive /\ Arrive(t, TRUE)
       \/ Resume(t, TRUE)
       \/ WhFailed(t, TRUE)

RaceSpec == Init /\ [][RaceNext]_vars

\* The continuations of the two webhook handlers.
WebhookResume(t, ok) ==
  \/ GbSelect(t, ok)
  \/ GbInsert(t, ok)
  \/ GbUpdate(t, ok)
  \/ RawSelect(t, ok)
  \/ AcUpdate(t, ok)
  \/ WhProcessed(t, ok)
  \/ CsUpdate(t, ok)
  \/ CsInsert(t, ok)

\* Webhook requests from any sender, one at a time, every database call
\* succeeding.
WebhookNext ==
  \E t \in Tasks :
    /\ Answer(TRUE)
    /\ \/ /\ t <= MaxActive
          /\ AllDone
          /\ \E req \in Requests :
               POST(t, req, TRUE) \/ PostCreditService(t, req, TRUE)
       \/ WebhookResume(t, TRUE)

WebhookSpec == Init /\ [][WebhookNext]_vars

\* Direct calls of addCreditsToOrganization, one at a time, every database
\* call succeeding.
AddCreditsNext ==
  \E t \in Tasks :
    /\ Answer(TRUE)
    /\ \/ /\ AllDone
          /\ \E o \in Orgs, a \in Amounts : AddCreditsToOrganization(t, o, a)
       \/ GbSelect(t, TRUE)
       \/ GbInsert(t, TRUE)
       \/ GbUpdate(t, TRUE)
       \/ RawSelect(t, TRUE)
       \/ AcUpdate(t, TRUE)

AddCreditsSpec == Init /\ [][AddCreditsNext]_vars

\* Direct calls of the functions of the balance store, one at a time, every
\* database call succeeding.
BalanceStoreNext ==
  \E t \in Tasks :
    /\ Answer(TRUE)
    /\ \/ /\ AllDone
          /\ \E o \in Orgs :
               \/ GetOrganizationCreditBalanceFromDB(t, o)
               \/ GetRawCreditBalanceForUpdate(t, o)
               \/ \E b \in NewBalances :
                    UpdateOrganizationCreditBalanceInDB(t, o, b)
       \/ GbSelect(t, TRUE)
       \/ GbInsert(t, TRUE)
       \/ GbUpdate(t, TRUE)
       \/ RawSelect(t, TRUE)
       \/ AcUpdate(t, TRUE)

BalanceStoreSpec == Init /\ [][BalanceStoreNext]_vars

\* Webhook requests for any event from the sender that holds the secret, one
\* at a time, every database call succeeding.
EventNext ==
  \E t \in Tasks :
    /\ Answer(TRUE)
    /\ \/ /\ t <= MaxActive
          /\ AllDone
          /\ \E req \in EventRequests :
               POST(t, req, TRUE) \/ PostCreditService(t, req, TRUE)
       \/ WebhookResume(t, TRUE)

EventSpec == Init /\ [][EventNext]_vars

\* saveResponse calls one at a time, every database call succeeding.
ResponseNext ==
  \E t \in Tasks :
    /\ Answer(TRUE)
    /\ \/ /\ AllDone
          /\ \E c \in Calls, d \in Durations : SaveResponse(t, c, d, TRUE)
       \/ \E found \in BOOLEAN : SrInterview(t, found)
       \/ SrCreate(t, TRUE)
       \/ GbSelect(t, TRUE)
       \/ GbInsert(t, TRUE)
       \/ GbUpdate(t, TRUE)
       \/ PeNoCharge(t, TRUE)
       \/ PeDebit(t, TRUE)
       \/ PePaid(t, TRUE)
       \/ PeInsufficient(t, TRUE)

ResponseSpec == Init /\ [][ResponseNext]_vars

\* getClientById calls one at a time, for new and existing users with or
\* without an organization; a database call may fail.
ClientNext ==
  \E t \in Tasks, ok \in BOOLEAN :
    /\ Answer(ok)
    /\ \/ /\ AllDone
          /\ \E id \in Users, email \in BOOLEAN, o \in OrganizationIds :
               GetClientById(t, id, email, o, ok)
       \/ \E returning \in BOOLEAN : GcInsert(t, ok, returning)
       \/ \E returning \in BOOLEAN : GcUpdate(t, ok, returning)
       \/ CsBalance(t, ok)
       \/ CsUpdate(t, ok)
       \/ CsInsert(t, ok)

\* Users the table can hold before the first call: none, or users that
\* signed up without an organization and hold their initial credit.
ClientInit ==
  /\ organization_credits = [o \in Orgs |-> NoRecord]
  /\ opening = organization_credits
  /\ billable_events = << >>
  /\ credit_purchases = {}
  /\ credit_transactions = << >>
  /\ organization = [o \in Orgs |-> 0]
  /\ user \in [Users -> {NoUser, [exists |-> TRUE, organization_id |-> "none",
                                  credits |-> INITIAL_CLIENT_CREDIT]}]
  /\ web_calls = {}
  /\ faults = 0
  /\ tasks = [t \in Tasks |-> IdleTask]

ClientSpec == ClientInit /\ [][ClientNext]_vars

\* Requests to the Retell webhook and callers of CreditService.addCredits,
\* one at a time, every database call succeeding.
RetellNext ==
  \E t \in Tasks :
    /\ Answer(TRUE)
    /\ \/ /\ AllDone
          /\ \/ \E r \in RetellRequests : RetellPost(t, r)
             \/ \E o \in Orgs, op \in CreditOps : AddCredits(t, o, op, TRUE)
       \/ \E found \in BOOLEAN : RtResponse(t, found)
       \/ \E found \in BOOLEAN, e \in Entities : RtInterview(t, found, e)
       \/ CsBalance(t, TRUE)
       \/ CsUpdate(t, TRUE)
       \/ CsInsert(t, TRUE)

RetellSpec == Init /\ [][RetellNext]_vars

\* Callers of CreditService.addCredits and deductCredits for the
\* organization, one at a time; a database call may fail.
CreditServiceNext ==
  \E t \in Tasks, ok \in BOOLEAN :
    /\ Answer(ok)
    /\ \/ /\ AllDone
          /\ \/ \E o \in Orgs, op \in CreditOps : AddCredits(t, o, op, ok)
             \/ /\ ok
                /\ \E o \in Orgs, a \in DeductAmounts :
                     DeductCreditsCall(
                       t, [type |-> "organization", id |-> o], a)
       \/ CsBalance(t, ok)
       \/ CsUpdate(t, ok)
       \/ CsInsert(t, ok)

CreditServiceSpec == Init /\ [][CreditServiceNext]_vars

\* Requests to register-call and callers of CreditService.addCredits, one at
\* a time; a database call may fail.
RegisterCallNext ==
  \E t \in Tasks, ok \in BOOLEAN :
    /\ Answer(ok)
    /\ \/ /\ AllDone
          /\ \/ /\ ok
                /\ \E b \in RegisterCallBodies, found \in BOOLEAN,
                      e \in Entities : RegisterCall(t, b, found, e)
             \/ \E o \in Orgs, op \in CreditOps : AddCredits(t, o, op, ok)
       \/ RcBalance(t, ok)
       \/ /\ ok
          /\ \E found \in BOOLEAN : RcInterviewer(t, found)
       \/ /\ ok
          /\ \E outcome \in CreateWebCallOutcomes : RcCreate(t, outcome)
       \/ CsUpdate(t, ok)
       \/ CsInsert(t, ok)

RegisterCallSpec == Init /\ [][RegisterCallNext]_vars

\* The cost calculator alone: one usage event of any duration is recorded.
CostRange == (0 - MaxDuration)..MaxDuration

CostNext ==
  /\ MayStart(1)
  /\ \E o \in Orgs, d \in CostRange, c \in CallerCosts :
       Answer(TRUE) /\ CreateBillableEvent(1, o, d, c, TRUE)

CostSpec == Init /\ [][CostNext]_vars

\* ResponseService.saveResponse: for a positive duration it passes
\* createBillableEvent the cost that calculateInterviewCost gives.
SaveResponsePendingPayment(t, org, duration, ok) ==
  /\ duration > 0
  /\ CreateBillableEventPendingPayment(
       t, org, duration, calculateInterviewCostPendingPayment(duration), ok)

\* The billing.service.ts whose events are created as 'pending_payment',
\* called by saveResponse or by any other importer of BillingService.
PendingPaymentNext ==
  \E t \in Tasks, ok \in BOOLEAN, o \in Orgs, d \in Durations :
    /\ Answer(ok)
    /\ \/ SaveResponsePendingPayment(t, o, d, ok)
       \/ \E c \in CallerCosts :
            CreateBillableEventPendingPayment(t, o, d, c, ok)

PendingPaymentSpec == Init /\ [][PendingPaymentNext]_vars

\* ------------------------------------------------------------ reconciliation

RECURSIVE PaidCostsUpTo(_, _)
\* The costs of the organization's first n events that are paid_by_credits.
PaidCostsUpTo(org, n) ==
  IF n = 0 THEN 0
  ELSE PaidCostsUpTo(org, n - 1)
       + (IF /\ billable_events[n].org = org
             /\ billable_events[n].status = "paid_by_credits"
          THEN billable_events[n].cost ELSE 0)

PaidCosts(org) == PaidCostsUpTo(org, Len(billable_events))

RECURSIVE ProcessedCreditsOf(_, _)
\* The amounts of the organization's purchases in S that are processed.
ProcessedCreditsOf(org, S) ==
  IF S = {} THEN 0
  ELSE LET r == CHOOSE x \in S : TRUE
       IN (IF r.org = org /\ r.status = "processed"
           THEN CreditedAmount(r.credits) ELSE 0)
          + ProcessedCreditsOf(org, S \ {r})

ProcessedCredits(org) == ProcessedCreditsOf(org, credit_purchases)

RECURSIVE LedgerSumUpTo(_, _)
\* The signed sum of the organization's first n ledger transactions.
LedgerSumUpTo(org, n) ==
  IF n = 0 THEN 0
  ELSE LedgerSumUpTo(org, n - 1)
       + (IF credit_transactions[n].org = org
          THEN credit_transactions[n].amount ELSE 0)

LedgerSum(org) == LedgerSumUpTo(org, Len(credit_transactions))

\* The initial credit granted since the first invocation.
GrantedSince(org) ==
  IF organization_credits[org].applied /\ ~opening[org].applied
  THEN INITIAL_CREDIT_AMOUNT_USD ELSE 0

\* The balance the organization should hold: what it opened with, the initial
\* credit if granted since, every processed purchase, less every paid event.
ExpectedBalance(org) ==
  opening[org].bal + GrantedSince(org) + ProcessedCredits(org)
  - PaidCosts(org)

RECURSIVE ProcessedAmountsUpTo(_, _)
\* The amount_usd of the organization's orders that the first n invocations
\* answered 200 'Webhook processed successfully.'
ProcessedAmountsUpTo(org, n) ==
  IF n = 0 THEN 0
  ELSE ProcessedAmountsUpTo(org, n - 1)
       + (IF /\ tasks[n].kind = "wh" /\ tasks[n].org = org
             /\ tasks[n].ret = "200_processed"
          THEN amount_usd(tasks[n].p.total) ELSE 0)

ProcessedAmounts(org) == ProcessedAmountsUpTo(org, MaxTasks)

\* t is the invocation that started last.
LastStarted(t) == Started(t) /\ (t < MaxTasks => ~Started(t + 1))

DoneKind(t, k) == tasks[t].pc = "done" /\ tasks[t].kind = k

\* -------------------------------------------------------------------- claims

\* Deliveries u < t of the same order, both answered.
Redelivery(u, t) ==
  /\ u < t
  /\ DoneKind(u, "wh") /\ DoneKind(t, "wh")
  /\ tasks[u].p.order = tasks[t].p.order

\* A later delivery of an order is answered 200 "Duplicate event" without
\* addCreditsToOrganization being called, and the balance holds every
\* processed purchase once.
C1_Answers ==
  /\ \A u, t \in Tasks :
       Redelivery(u, t) =>
         /\ tasks[u].ret \in {"200_processed", "200_duplicate"}
         /\ tasks[t].ret = "200_duplicate"
         /\ ~tasks[t].called
         /\ tasks[t].gbRet = -1
  /\ AllDone =>
       \A o \in Orgs :
         organization_credits[o].exists =>
           organization_credits[o].bal = ExpectedBalance(o)

\* The arrival of a delivery whose order an earlier delivery carried ends
\* the invocation at once and changes no table.
C1_Step ==
  \A t \in Tasks :
    ( /\ tasks[t].pc = "idle"
      /\ tasks'[t].kind = "wh"
      /\ \E u \in Tasks : /\ u < t
                           /\ tasks[u].kind = "wh"
                           /\ tasks[u].p.order = tasks'[t].p.order )
    => /\ tasks'[t].pc = "done"
       /\ UNCHANGED << organization_credits, credit_transactions,
                       credit_purchases, billable_events, organization, user, web_calls >>

C2_LedgerSumEqualsBalance ==
  AllDone =>
    \A o \in Orgs :
      ~opening[o].exists =>
        LedgerSum(o) = organization_credits[o].bal + organization[o]

\* C3: once all concurrent invocations have completed, no update is lost:
\* an organization that opened with its grant applied holds the opening
\* balance plus every processed purchase less every paid event, and its
\* organization.credits is the sum of the amounts that addCredits reported
\* added (one ledger transaction each).
C3_NoLostUpdate ==
  AllDone =>
    \A o \in Orgs :
      /\ (opening[o].exists /\ opening[o].applied) =>
           organization_credits[o].bal = ExpectedBalance(o)
      /\ organization[o] = LedgerSum(o)

\* Invocation t was createBillableEvent for an event with a cost, has
\* completed, and read a balance that covers the cost.
PaidCase(t) ==
  /\ DoneKind(t, "cbe") /\ tasks[t].evt > 0
  /\ tasks[t].cost > 0 /\ tasks[t].gbRet >= tasks[t].cost

\* The event of a PaidCase is paid_by_credits and the balance it leaves is
\* the balance read less the cost.
C4_DebitedAndPaid ==
  \A t \in Tasks :
    PaidCase(t) =>
      /\ billable_events[tasks[t].evt].status = "paid_by_credits"
      /\ LastStarted(t) =>
           organization_credits[tasks[t].org].bal
             = tasks[t].gbRet - tasks[t].cost

\* The organization's ledger transactions of a usage type and amount -c.
UsageEntries(org, c) ==
  { i \in DOMAIN credit_transactions :
      /\ credit_transactions[i].org = org
      /\ credit_transactions[i].type \in {"usage", "interview_usage"}
      /\ credit_transactions[i].amount = 0 - c }

\* The organization's events of cost c that are paid_by_credits.
PaidEvents(org, c) ==
  { n \in DOMAIN billable_events :
      /\ billable_events[n].org = org
      /\ billable_events[n].cost = c
      /\ billable_events[n].status = "paid_by_credits" }

\* C4: an event with cost > 0 whose balance read is >= cost ends
\* paid_by_credits, leaves the balance at old balance - cost, and has
\* exactly one usage ledger transaction of amount -cost (as many such
\* transactions as there are paid events of that cost).
C4_PaidEventDebitedAndLedgered ==
  /\ C4_DebitedAndPaid
  /\ \A t \in Tasks :
       PaidCase(t) =>
         Cardinality(UsageEntries(tasks[t].org, tasks[t].cost))
           = Cardinality(PaidEvents(tasks[t].org, tasks[t].cost))

\* Invocation t was createBillableEvent for an event with a cost, has
\* completed, and read a balance below the cost.
InsufficientCase(t) ==
  /\ DoneKind(t, "cbe") /\ tasks[t].evt > 0
  /\ tasks[t].cost > 0
  /\ tasks[t].gbRet >= 0 /\ tasks[t].gbRet < tasks[t].cost

\* The event of an InsufficientCase is payment_failed_insufficient_credits
\* and the stored balance is the balance that was read.
C5_State ==
  \A t \in Tasks :
    InsufficientCase(t) =>
      /\ billable_events[tasks[t].evt].status
           = "payment_failed_insufficient_credits"
      /\ LastStarted(t) =>
           organization_credits[tasks[t].org].bal = tasks[t].gbRet

\* The step of processEventWithCredits that follows a balance read below
\* the cost writes neither the balance nor the ledger.
C5_Step ==
  \A t \in Tasks :
    (tasks[t].pc = "pe_insufficient" /\ tasks'[t] # tasks[t]) =>
      /\ tasks'[t].pc = "done"
      /\ UNCHANGED << organization_credits, credit_transactions,
                      organization, user, web_calls >>

\* C5: an event with cost > 0 whose balance read is < cost ends
\* payment_failed_insufficient_credits; the stored balance is still the
\* balance read and no ledger transaction is appended.
C5_InsufficientLeavesBalance == []C5_State /\ [][C5_Step]_vars

C5_Witness ==
  \E t \in Tasks :
    /\ InsufficientCase(t) /\ LastStarted(t)
    /\ tasks[t].gbRet = INITIAL_CREDIT_AMOUNT_USD
    /\ organization_credits[tasks[t].org].bal = INITIAL_CREDIT_AMOUNT_USD
    /\ billable_events[tasks[t].evt].status
         = "payment_failed_insufficient_credits"

\* Invocation t is createBillableEvent for an event whose computed cost is 0.
FreeCase(t) ==
  /\ tasks[t].kind = "cbe" /\ tasks[t].evt > 0
  /\ billable_events[tasks[t].evt].cost = 0

\* A completed FreeCase never read the balance, and its event is no_charge
\* unless a database call failed.
C6_State ==
  \A t \in Tasks :
    (FreeCase(t) /\ tasks[t].pc = "done") =>
      /\ tasks[t].gbRet = -1
      /\ ~tasks[t].called
      /\ faults = 0 => billable_events[tasks[t].evt].status = "no_charge"
      /\ billable_events[tasks[t].evt].status
           \in {"no_charge", "pending_credit_check"}

\* No step of an invocation for a free event, its arrival included, reads
\* or writes a balance or the ledger.
C6_Step ==
  \A t \in Tasks :
    ( /\ tasks'[t] # tasks[t]
      /\ tasks'[t].kind = "cbe" /\ tasks'[t].evt > 0
      /\ tasks'[t].cost = 0 )
    => /\ tasks[t].pc \in {"idle", "pe_no_charge"}
       /\ tasks'[t].pc \in {"pe_no_charge", "done"}
       /\ UNCHANGED << organization_credits, credit_transactions,
                       organization, user, web_calls >>

\* C6: an event whose computed cost is 0 ends no_charge, and the balance
\* store is never touched for it: no balance read, no record creation or
\* initial grant, no balance write, no ledger entry.
C6_FreeEventTouchesNoBalance == []C6_State /\ [][C6_Step]_vars

C6_Witness ==
  \E t \in Tasks :
    /\ FreeCase(t) /\ tasks[t].pc = "done"
    /\ billable_events[tasks[t].evt].status = "no_charge"
    /\ ~organization_credits[tasks[t].org].exists
    /\ credit_transactions = << >>

\* Invocation t calls getOrganizationCreditBalanceFromDB and it returns in
\* this step.
GetBalanceReturns(t) ==
  /\ tasks[t].kind \in {"cbe", "wh"}
  /\ tasks[t].gbRet = -1
  /\ tasks'[t].gbRet # -1

\* The return of getOrganizationCreditBalanceFromDB: without a record it
\* returns the initial credit and leaves [2.00, applied]; with a record that
\* has the credit applied it returns the stored balance and changes nothing.
C7_Step ==
  \A t \in Tasks :
    GetBalanceReturns(t) =>
      LET rec == organization_credits[tasks[t].org]
      IN /\ ~rec.exists =>
              /\ tasks'[t].gbRet = INITIAL_CREDIT_AMOUNT_USD
              /\ organization_credits'[tasks[t].org]
                   = [exists |-> TRUE, bal |-> INITIAL_CREDIT_AMOUNT_USD,
                      applied |-> TRUE]
         /\ (rec.exists /\ rec.applied) =>
              /\ tasks'[t].gbRet = rec.bal
              /\ UNCHANGED organization_credits

\* Two consecutive invocations that read a balance below their cost (so
\* neither debits nor credits) read the same balance: the initial credit,
\* when they are the first two and the organization had no record.
C7_State ==
  \A t \in Tasks :
    (t > 1 /\ InsufficientCase(t - 1) /\ InsufficientCase(t)) =>
      /\ tasks[t].gbRet = tasks[t - 1].gbRet
      /\ (t = 2 /\ ~opening[tasks[t].org].exists) =>
           tasks[t].gbRet = INITIAL_CREDIT_AMOUNT_USD

\* C7: the first getBalance of an organization without a record returns
\* 2.00 and leaves [current_balance 2.00, initial_credit_applied true];
\* every later getBalance with no debit or credit in between returns the
\* same value and does not change the record.
C7_InitialGrantOnce == []C7_State /\ [][C7_Step]_vars

C7_Witness ==
  \E t \in Tasks :
    /\ t > 1 /\ InsufficientCase(t - 1) /\ InsufficientCase(t)
    /\ ~opening[tasks[t].org].exists
    /\ tasks[t - 1].gbRet = INITIAL_CREDIT_AMOUNT_USD
    /\ tasks[t].gbRet = INITIAL_CREDIT_AMOUNT_USD
    /\ organization_credits[tasks[t].org]
         = [exists |-> TRUE, bal |-> INITIAL_CREDIT_AMOUNT_USD,
            applied |-> TRUE]

\* The cost recorded for a duration of d seconds, if an event has one.
CostOf(d, c) ==
  \A n \in DOMAIN billable_events :
    billable_events[n].dur = d => billable_events[n].cost = c

TerminalStatuses ==
  {"no_charge", "paid_by_credits", "payment_failed_insufficient_credits"}

\* Every event is pending_credit_check or in a terminal status.
C9_State ==
  \A n \in DOMAIN billable_events :
    billable_events[n].status \in TerminalStatuses \cup {"pending_credit_check"}

\* Events are appended as pending_credit_check, no event is removed, and an
\* event in a terminal status keeps it.
C9_Step ==
  /\ Len(billable_events') >= Len(billable_events)
  /\ \A n \in DOMAIN billable_events' :
       IF n \in DOMAIN billable_events
       THEN billable_events[n].status \in TerminalStatuses =>
              billable_events'[n].status = billable_events[n].status
       ELSE billable_events'[n].status = "pending_credit_check"

C10_StoredCostIsCalculated ==
  \A n \in DOMAIN billable_events :
    billable_events[n].cost
      = calculateInterviewCostPendingPayment(billable_events[n].dur)

\* The invocations of createBillableEvent whose insert succeeded.
InsertedEvents ==
  { t \in Tasks : tasks[t].kind = "cbe" /\ tasks[t].ret = "insertedData" }

\* An invocation of createBillableEvent that returned null has no event and
\* never read a balance; the table holds one row per successful insert.
C11_State ==
  /\ \A t \in Tasks :
       (tasks[t].kind = "cbe" /\ tasks[t].ret = "null") =>
         /\ tasks[t].pc = "done"
         /\ tasks[t].evt = 0
         /\ tasks[t].gbRet = -1
  /\ Len(billable_events) = Cardinality(InsertedEvents)

\* The step in which createBillableEvent returns null changes no table.
C11_Step ==
  \A t \in Tasks :
    (tasks[t].pc = "idle" /\ tasks'[t].kind = "cbe" /\ tasks'[t].ret = "null")
    => UNCHANGED << billable_events, organization_credits,
                    credit_transactions, credit_purchases, organization, user, web_calls >>

\* C11: when the insert of the billable event fails, createBillableEvent
\* returns null at once: no event exists, no status update is issued, the
\* balance is neither read nor changed and no ledger entry is written.
C11_FailedInsertAborts == []C11_State /\ [][C11_Step]_vars

C11_Witness ==
  \E t \in Tasks :
    /\ tasks[t].kind = "cbe" /\ tasks[t].ret = "null"
    /\ tasks[t].pc = "done"
    /\ billable_events = << >>
    /\ ~organization_credits[tasks[t].org].exists
    /\ faults = 1

\* The deliveries of an order that reached addCreditsToOrganization.
CreditingDeliveries(order) ==
  { t \in Tasks : /\ tasks[t].kind = "wh"
                  /\ tasks[t].p.order = order
                  /\ tasks[t].called }

\* C12: of the deliveries of one order that are processed concurrently, at
\* most one inserts the credit_purchases row and reaches the crediting
\* step; any other is answered 200 as a duplicate without crediting,
\* whatever the first is doing meanwhile.
C12_ConcurrentDeliveriesCreditOnce ==
  /\ \A p \in Payloads :
       /\ Cardinality(CreditingDeliveries(p.order)) <= 1
       /\ Cardinality({ r \in credit_purchases : r.order = p.order }) <= 1
  /\ \A u, t \in Tasks :
       ( /\ u < t
         /\ tasks[u].kind = "wh" /\ tasks[t].kind = "wh"
         /\ tasks[u].p.order = tasks[t].p.order )
       => /\ tasks[t].pc = "done"
          /\ tasks[t].ret = "200_duplicate"
          /\ ~tasks[t].called
          /\ tasks[t].gbRet = -1

C12_Witness ==
  \E u, t \in Tasks :
    /\ u < t
    /\ tasks[u].kind = "wh" /\ tasks[t].kind = "wh"
    /\ tasks[u].p.order = tasks[t].p.order
    /\ tasks[u].called /\ tasks[u].pc = "ac_update"
    /\ tasks[t].ret = "200_duplicate"

\* C13: a processed payment confirmation for amount A raises the stored
\* balance by exactly A and by nothing else: at a quiescent point of a run
\* of one invocation at a time, an organization that had its record holds
\* the opening balance plus the amount_usd of every processed order (and the
\* initial credit if it was still due) less every paid event.
C13_ProcessedOrderAddsItsAmount ==
  AllDone =>
    \A o \in Orgs :
      opening[o].exists =>
        organization_credits[o].bal
          = opening[o].bal + GrantedSince(o) + ProcessedAmounts(o)
            - PaidCosts(o)

\* Delivery u of an order ended in the catch block (crediting threw, 500
\* returned) and delivery t of the same order arrived later.
AfterFailedDelivery(u, t) ==
  /\ u < t
  /\ tasks[u].kind = "wh" /\ tasks[u].ret = "500_process_credits"
  /\ tasks[t].kind = "wh"
  /\ tasks[t].p.order = tasks[u].p.order

\* A later delivery never attempts the crediting: it has been answered as a
\* duplicate, or 500 when its own insert met a database error.
C14_State ==
  \A u, t \in Tasks :
    AfterFailedDelivery(u, t) =>
      /\ tasks[t].pc = "done"
      /\ tasks[t].ret \in {"200_duplicate", "500_recording_purchase"}
      /\ ~tasks[t].called
      /\ tasks[t].gbRet = -1

\* The arrival of a later delivery whose insert the database answers.
C14_Step ==
  \A u, t \in Tasks :
    (/\ u < t
     /\ tasks[u].kind = "wh" /\ tasks[u].ret = "500_process_credits"
     /\ tasks[t].pc = "idle"
     /\ tasks'[t].kind = "wh"
     /\ tasks'[t].p.order = tasks[u].p.order
     /\ faults' = faults)
      => /\ tasks'[t].ret = "200_duplicate"
         /\ UNCHANGED << organization_credits, credit_purchases, user, web_calls >>

\* C14: after a delivery whose crediting failed, every later delivery of
\* the same order takes the duplicate branch: it is answered 200 as
\* already handled and never attempts the crediting again.
C14_RetryAfterFailureIsDuplicate == []C14_State /\ [][C14_Step]_vars

C14_Witness ==
  \E u, t \in Tasks :
    /\ AfterFailedDelivery(u, t)
    /\ tasks[t].ret = "200_duplicate"
    /\ \E r \in credit_purchases :
         /\ r.order = tasks[u].p.order
         /\ r.status = "failed"
         /\ r.reason = tasks[u].err

\* A delivery in which the crediting threw is in the catch block or has
\* been answered 500, never 200.
C15_State ==
  \A t \in Tasks :
    (tasks[t].kind = "wh" /\ tasks[t].err # "none") =>
      /\ tasks[t].called
      /\ \/ tasks[t].pc = "wh_failed" /\ tasks[t].ret = "none"
         \/ tasks[t].pc = "done" /\ tasks[t].ret = "500_process_credits"

\* The catch block's step answers 500; when its update succeeds the
\* purchase goes from pending_processing to failed with the error's message
\* as failure_reason, and when its update fails the row is left as it was.
C15_Step ==
  \A t \in Tasks :
    (tasks[t].pc = "wh_failed" /\ tasks'[t] # tasks[t]) =>
      /\ tasks'[t].pc = "done"
      /\ tasks'[t].ret = "500_process_credits"
      /\ UNCHANGED << organization_credits, credit_transactions, user, web_calls >>
      /\ IF faults' = faults
         THEN \E r \in credit_purchases :
                /\ r.id = tasks[t].p.purchase
                /\ r.status = "pending_processing"
                /\ credit_purchases'
                     = (credit_purchases \ {r})
                       \cup {[r EXCEPT !.status = "failed",
                                       !.reason = tasks[t].err]}
         ELSE UNCHANGED credit_purchases

\* C15: when the crediting step throws, the purchase record is updated
\* from pending_processing to failed with the error message as
\* failure_reason, and the sender is answered 500, never success.
C15_FailedCreditingIsReported == []C15_State /\ [][C15_Step]_vars

C15_Witness ==
  \E t \in Tasks :
    /\ tasks[t].kind = "wh" /\ tasks[t].pc = "done"
    /\ tasks[t].err = "updateError"
    /\ tasks[t].ret = "500_process_credits"
    /\ \E r \in credit_purchases :
         /\ r.id = tasks[t].p.purchase
         /\ r.status = "failed"
         /\ r.reason = "updateError"

\* A delivery answered 'Database error recording purchase.' never reached
\* the crediting.
C16_State ==
  \A t \in Tasks :
    (tasks[t].kind = "wh" /\ tasks[t].ret = "500_recording_purchase") =>
      /\ tasks[t].pc = "done"
      /\ ~tasks[t].called
      /\ tasks[t].gbRet = -1

\* The arrival of a delivery whose insert into credit_purchases fails with
\* a database error is answered 500 at once and changes no table.
C16_Step ==
  \A t \in Tasks :
    ( /\ tasks[t].pc = "idle"
      /\ tasks'[t].kind = "wh"
      /\ faults' # faults )
    => /\ tasks'[t].pc = "done"
       /\ tasks'[t].ret = "500_recording_purchase"
       /\ ~tasks'[t].called
       /\ UNCHANGED << credit_purchases, organization_credits,
                       credit_transactions, organization, billable_events, user, web_calls >>

\* C16: when the insert of the purchase record fails for a reason other
\* than a uniqueness violation, the handler answers 500: the crediting is
\* not invoked, balance and ledger are unchanged, no record is left behind.
C16_FailedRecordingAborts == []C16_State /\ [][C16_Step]_vars

C16_Witness ==
  \E t \in Tasks :
    /\ tasks[t].kind = "wh" /\ tasks[t].ret = "500_recording_purchase"
    /\ tasks[t].credits > 0
    /\ credit_purchases = {}
    /\ organization_credits = opening
    /\ credit_transactions = << >>

\* The purchase row that delivery t inserted.
PurchaseOf(t) == { r \in credit_purchases : r.id = tasks[t].p.purchase }

\* processed_at is set exactly on the processed purchases, and the purchase
\* of a delivery that is still crediting is pending_processing.
C17_State ==
  /\ \A r \in credit_purchases : r.processed_at <=> r.status = "processed"
  /\ \A t \in Tasks :
       ( /\ tasks[t].kind = "wh"
         /\ tasks[t].pc \in {"gb_select", "gb_insert", "gb_update",
                              "raw_select", "ac_update", "wh_processed"} )
       => \A r \in PurchaseOf(t) : r.status = "pending_processing"

\* The step that marks the purchase processed answers 200 and finds the
\* credited balance already stored.
C17_Step ==
  \A t \in Tasks :
    (tasks[t].pc = "wh_processed" /\ tasks'[t] # tasks[t]) =>
      /\ tasks'[t].pc = "done"
      /\ tasks'[t].ret = "200_processed"
      /\ \E r \in PurchaseOf(t) :
           /\ r.status = "pending_processing"
           /\ credit_purchases'
                = (credit_purchases \ {r})
                  \cup {[r EXCEPT !.status = "processed",
                                  !.processed_at = TRUE]}
      /\ UNCHANGED organization_credits
      /\ tasks[t].credits > 0 =>
           /\ tasks[t].called
           /\ organization_credits[tasks[t].org].exists
           /\ organization_credits[tasks[t].org].bal = tasks[t].nb
           /\ tasks[t].nb >= CreditedAmount(tasks[t].credits)

\* C17: for a first-seen order whose insert and crediting succeed, the
\* purchase record goes from pending_processing to processed with
\* processed_at set, after the balance has been credited, and the handler
\* answers 200.
C17_ProcessedAfterCrediting == []C17_State /\ [][C17_Step]_vars

C17_Witness ==
  \E t \in Tasks :
    /\ tasks[t].kind = "wh" /\ tasks[t].ret = "200_processed"
    /\ tasks[t].called /\ LastStarted(t)
    /\ organization_credits[tasks[t].org].bal = tasks[t].nb
    /\ \E r \in PurchaseOf(t) : r.status = "processed" /\ r.processed_at


\* The request carries the digest that the holder of the configured secret
\* computes over this body (possibly followed by other characters).
Authentic(req) ==
  /\ req.secret # ""
  /\ req.signature.key = req.secret
  /\ req.signature.body = req.payload.order
  /\ req.signature.hex = DigestLen

WebhookKinds == {"wh", "wh_credits"}

SignatureRejections ==
  {"400_missing_signature", "400_invalid_signature",
   "400_invalid_signature_format", "500_secret_not_configured"}

\* A webhook whose request is not authentic has ended with an error answer
\* and has read or written nothing; every purchase record belongs to a
\* webhook with an authentic request, and so does every recharge.
C18_State ==
  /\ \A t \in Tasks :
       (tasks[t].kind \in WebhookKinds /\ ~Authentic(tasks[t].req))
         => /\ tasks[t].pc = "done"
            /\ tasks[t].ret \in SignatureRejections
            /\ ~tasks[t].called
            /\ tasks[t].gbRet = 0 - 1
  /\ \A r \in credit_purchases :
       \E t \in Tasks : /\ tasks[t].kind = "wh"
                        /\ tasks[t].p.order = r.order
                        /\ Authentic(tasks[t].req)
  /\ (\A t \in Tasks : tasks[t].kind \in WebhookKinds
                          => ~Authentic(tasks[t].req))
       => /\ credit_purchases = {}
          /\ credit_transactions = << >>
          /\ organization_credits = opening
          /\ \A o \in DOMAIN organization : organization[o] = 0

\* The step in which a request that is not authentic arrives answers it
\* and leaves every table as it was.
C18_Step ==
  \A t \in Tasks :
    (/\ tasks[t].pc = "idle"
     /\ tasks'[t].kind \in WebhookKinds
     /\ ~Authentic(tasks'[t].req))
      => /\ tasks'[t].pc = "done"
         /\ tasks'[t].ret \in SignatureRejections
         /\ (tasks'[t].req.signature = NoSignature
               => tasks'[t].ret \in {"400_missing_signature",
                                     "400_invalid_signature",
                                     "500_secret_not_configured"})
         /\ (tasks'[t].req.secret = ""
               => tasks'[t].ret \in {"400_missing_signature",
                                     "500_secret_not_configured"})
         /\ UNCHANGED << organization_credits, billable_events,
                         credit_purchases, credit_transactions, organization, user, web_calls >>

FirstReadInserts(t) ==
  /\ tasks[t].pc = "gb_insert"
  /\ tasks'[t].pc # "gb_insert"

\* The read returns the initial credit without an error, and the record
\* holds one grant unless a later step of another invocation has moved it.
C19_Step ==
  \A t \in Tasks :
    FirstReadInserts(t) =>
      /\ tasks'[t].err = "none"
      /\ tasks'[t].gbRet = INITIAL_CREDIT_AMOUNT_USD
      /\ organization_credits'[tasks[t].org].exists
      /\ organization_credits'[tasks[t].org].applied

\* C19: of two concurrent first reads of the balance of an organization
\* without a record, in every interleaving one record is created with a
\* single initial grant and both reads return the grant, neither failing.
C19_ConcurrentFirstReadsBothReturnGrant == [][C19_Step]_vars


\* An amount that is zero, negative or not a number.
NotPositive(x) == x.type # "number" \/ x.nan \/ x.v <= 0

AmountError == "Credit amount must be a positive number."

\* A direct call with such an amount has ended with the error and has read
\* no balance.
C20_State ==
  \A t \in Tasks :
    (tasks[t].kind = "act" /\ NotPositive(tasks[t].amount))
      => /\ tasks[t].pc = "done"
         /\ tasks[t].err = AmountError
         /\ ~tasks[t].called
         /\ tasks[t].gbRet = 0 - 1

\* No step of such a call changes a table.
C20_Step ==
  (\E t \in Tasks : /\ tasks'[t].kind = "act"
                     /\ NotPositive(tasks'[t].amount)
                     /\ tasks'[t] # tasks[t])
    => UNCHANGED << organization_credits, billable_events, credit_purchases,
                    credit_transactions, organization, user, web_calls >>

\* C20: addCreditsToOrganization called with an amount that is zero,
\* negative or not a number is rejected at once with the error 'Credit amount
\* must be a positive number.' and has no side effect: no read of the balance
\* that creates a record, no write of the balance, no ledger entry.
C20_InvalidAmountRejected == []C20_State /\ [][C20_Step]_vars


\* A direct call of updateOrganizationCreditBalanceInDB gets the answer of
\* its update in this step.
SetBalanceAnswered(t) ==
  /\ tasks[t].kind = "ub"
  /\ tasks[t].pc = "ac_update"
  /\ tasks'[t].pc = "done"

\* On an organization without a record the call throws and nothing is
\* created or changed.
C21_Step ==
  \A t \in Tasks :
    (SetBalanceAnswered(t) /\ ~organization_credits[tasks[t].org].exists)
      => /\ tasks'[t].err # "none"
         /\ tasks'[t].ret # "resolved"
         /\ UNCHANGED organization_credits

\* C21: updateOrganizationCreditBalanceInDB on an organization that has no
\* record fails with a not-found error and creates or changes nothing; it
\* never reports success for a record that does not exist.
C21_SetBalanceOnMissingRecordFails == [][C21_Step]_vars


\* A step of a direct call of addCreditsToOrganization with a positive
\* amount.
AddAmountSteps(t) ==
  /\ tasks'[t].kind = "act"
  /\ ~NotPositive(tasks'[t].amount)
  /\ tasks'[t] # tasks[t]

\* No step of the call creates a record or touches the flag of the initial
\* credit.
C22_Step ==
  \A t \in Tasks :
    AddAmountSteps(t) =>
      LET rec == organization_credits[tasks'[t].org]
          after == organization_credits'[tasks'[t].org]
      IN /\ after.exists = rec.exists
         /\ after.applied = rec.applied
         /\ ~rec.exists => after = rec

\* C22: addCreditsToOrganization never triggers the creation of the initial
\* credit: it reads the balance only through the raw read, so for an
\* organization without a record it creates none and grants nothing, and for
\* one with a record it leaves initial_credit_applied as it was.
C22_AddAmountNeverGrants == [][C22_Step]_vars


\* A call of getRawCreditBalanceForUpdate (by itself or inside
\* addCreditsToOrganization) gets the answer of its select in this step.
RawReadAnswered(t) ==
  /\ tasks[t].pc = "raw_select"
  /\ tasks'[t].pc # "raw_select"

\* The read returns the stored balance, 0 without a record, and leaves every
\* table as it was.
C23_Step ==
  \A t \in Tasks :
    RawReadAnswered(t) =>
      LET rec == organization_credits[tasks[t].org]
      IN /\ tasks'[t].err = "none"
         /\ tasks'[t].rawRet = IF rec.exists THEN rec.bal ELSE 0
         /\ UNCHANGED << organization_credits, billable_events,
                         credit_purchases, credit_transactions, organization, user, web_calls >>

\* A direct raw read that has returned did so without an error.
C23_State ==
  \A t \in Tasks :
    (tasks[t].kind = "raw" /\ tasks[t].pc = "done")
      => tasks[t].err = "none" /\ tasks[t].rawRet >= 0

\* C23: getRawCreditBalanceForUpdate returns the stored balance when a
\* record exists and 0 when none exists, and in both cases changes nothing:
\* it never creates a record, never applies the initial credit and never
\* flips initial_credit_applied.
C23_RawReadChangesNothing == []C23_State /\ [][C23_Step]_vars

\* A raw read returned 0 for an organization that still has no record, and a
\* later one returned the granted balance of the record made in between.
C23_Witness ==
  \E t, u \in Tasks :
    /\ t < u
    /\ tasks[t].kind = "raw" /\ tasks[t].pc = "done" /\ tasks[t].rawRet = 0
    /\ opening[tasks[t].org] = NoRecord
    /\ tasks[u].kind = "raw" /\ tasks[u].pc = "done"
    /\ tasks[u].org = tasks[t].org
    /\ tasks[u].rawRet = INITIAL_CREDIT_AMOUNT_USD
    /\ organization_credits[tasks[u].org]
         = [exists |-> TRUE, bal |-> INITIAL_CREDIT_AMOUNT_USD,
            applied |-> TRUE]


\* Invocation t, whose select found a record without the initial credit,
\* gets the answer of its update in this step.
GrantWritten(t) ==
  /\ tasks[t].pc = "gb_update"
  /\ tasks'[t].pc # "gb_update"

\* The write adds the initial credit to the balance stored at that moment
\* (or leaves it when another read has applied the credit meanwhile), sets
\* the flag and returns the balance it leaves: whatever was debited or
\* credited since the read is still there.
C24_Step ==
  \A t \in Tasks :
    GrantWritten(t) =>
      LET rec == organization_credits[tasks[t].org]
          after == organization_credits'[tasks[t].org]
      IN /\ after.applied
         /\ after.bal = IF rec.applied THEN rec.bal
                        ELSE rec.bal + INITIAL_CREDIT_AMOUNT_USD
         /\ tasks'[t].gbRet = after.bal

\* C24: getOrganizationCreditBalanceFromDB on a record whose
\* initial_credit_applied is false adds the initial credit to the stored
\* balance, sets the flag and returns the new balance as one atomic step: no
\* debit or credit of the organization made between its read and its write
\* is overwritten.
C24_GrantIsAtomic == [][C24_Step]_vars


BalanceReadSteps == {"gb_select", "gb_insert", "gb_update"}

\* The read of the balance threw while invocation t was processing an event
\* with a cost.
BalanceReadFailed(t) ==
  /\ tasks[t].kind = "cbe" /\ tasks[t].evt > 0 /\ tasks[t].cost > 0
  /\ tasks[t].err # "none"
  /\ tasks[t].gbRet = 0 - 1

\* Such an invocation has ended and its event is still pending_credit_check.
C25_State ==
  \A t \in Tasks :
    BalanceReadFailed(t) =>
      /\ tasks[t].pc = "done"
      /\ billable_events[tasks[t].evt].status = "pending_credit_check"

\* The step in which a database call of the read fails ends the invocation
\* and changes no table; an invocation that ended this way never moves again.
C25_Step ==
  \A t \in Tasks :
    /\ (/\ tasks[t].kind = "cbe"
        /\ tasks[t].pc \in BalanceReadSteps
        /\ tasks'[t] # tasks[t]
        /\ faults' # faults)
         => /\ tasks'[t].pc = "done"
            /\ tasks'[t].err # "none"
            /\ UNCHANGED << organization_credits, billable_events,
                            credit_transactions, organization, user, web_calls >>
    /\ BalanceReadFailed(t) => tasks'[t] = tasks[t]

\* C25: if the read of the balance fails while an event with a cost is
\* being processed, the event stays in pending_credit_check (neither rolled
\* back nor moved to a terminal status), balance and ledger are unchanged,
\* and the processing is not retried in-process.
C25_FailedBalanceReadLeavesPending == []C25_State /\ [][C25_Step]_vars

\* The read failed for an event, everything has ended, a later invocation
\* has run, and the event is still pending with the balance as it opened.
C25_Witness ==
  \E t, u \in Tasks :
    /\ t < u
    /\ BalanceReadFailed(t)
    /\ tasks[t].err = "fetchError"
    /\ tasks[u].pc = "done" /\ tasks[u].kind = "cbe" /\ tasks[u].cost = 0
    /\ AllDone
    /\ billable_events[tasks[t].evt].status = "pending_credit_check"
    /\ organization_credits = opening


\* The database call that finalizes a balance mutation of invocation t (the
\* event's status after the debit, the ledger row after the update of
\* credits, the purchase's status after the crediting) fails in this step.
FinalizationFails(t) ==
  /\ tasks[t].pc \in {"pe_paid", "cs_insert", "wh_processed"}
  /\ tasks'[t] # tasks[t]
  /\ faults' # faults

\* The invocation ends with an error, a false or a 500, never as on success.
C26_Step ==
  \A t \in Tasks :
    FinalizationFails(t) =>
      \/ tasks'[t].err # "none"
      \/ tasks'[t].ret \in {"false", "500_update_credits",
                            "500_finalize_status"}

\* C26: a storage failure after a balance mutation and before the
\* finalization of ledger or status is reported to the caller as a failure,
\* never as a soft success: if the update of the status to paid_by_credits
\* fails after the debit, the billing operation does not complete as if it
\* had succeeded.
C26_FinalizationFailureIsReported == [][C26_Step]_vars


\* Delivery u of an order was credited but its update to 'processed'
\* failed, and delivery t of the same order arrived later.
AfterUnfinalizedDelivery(u, t) ==
  /\ u < t
  /\ tasks[u].kind = "wh" /\ tasks[u].ret = "500_finalize_status"
  /\ tasks[t].kind = "wh"
  /\ tasks[t].p.order = tasks[u].p.order

\* The later delivery has been answered without reading or crediting the
\* balance: as a duplicate, or 500 when its own insert met a database error.
C27_State ==
  \A u, t \in Tasks :
    AfterUnfinalizedDelivery(u, t) =>
      /\ tasks[t].pc = "done"
      /\ tasks[t].ret \in {"200_duplicate", "500_recording_purchase"}
      /\ ~tasks[t].called
      /\ tasks[t].gbRet = 0 - 1

\* The failing update to 'processed' is answered 500 and leaves the purchase
\* as it was; the arrival of a later delivery changes no balance.
C27_Step ==
  \A t \in Tasks :
    /\ (/\ tasks[t].pc = "wh_processed"
        /\ tasks'[t] # tasks[t]
        /\ faults' # faults)
         => /\ tasks'[t].pc = "done"
            /\ tasks'[t].ret = "500_finalize_status"
            /\ UNCHANGED << organization_credits, credit_purchases, user, web_calls >>
    /\ (/\ tasks[t].pc = "idle"
        /\ tasks'[t].kind = "wh"
        /\ \E u \in Tasks :
             /\ u < t
             /\ tasks[u].kind = "wh"
             /\ tasks[u].ret = "500_finalize_status"
             /\ tasks[u].p.order = tasks'[t].p.order)
         => /\ UNCHANGED << organization_credits, credit_purchases, user, web_calls >>
            /\ faults' = faults => tasks'[t].ret = "200_duplicate"

\* C27: if the crediting succeeds but the update of the purchase to
\* processed fails, the handler answers 500 ('Failed to finalize purchase
\* status.') and not success, and a later delivery of the same order does
\* not credit the balance a second time.
C27_UnfinalizedPurchaseNotCreditedTwice == []C27_State /\ [][C27_Step]_vars

\* The crediting was written, the update to processed failed with 500, and
\* the redelivery was answered as a duplicate with the row still pending.
C27_Witness ==
  \E u, t \in Tasks :
    /\ AfterUnfinalizedDelivery(u, t)
    /\ tasks[u].called /\ tasks[u].credits > 0
    /\ organization_credits[tasks[u].org].bal = tasks[u].nb
    /\ tasks[t].ret = "200_duplicate"
    /\ \E r \in credit_purchases :
         /\ r.order = tasks[u].p.order
         /\ r.status = "pending_processing"


\* The request of the webhook that arrives in this step passes the
\* verification and is not a successful order: another event, or for the
\* CreditService-based handler an order that is not paid.
NotASuccessfulOrder(t) ==
  /\ tasks[t].pc = "idle"
  /\ tasks'[t].kind \in WebhookKinds
  /\ Authentic(tasks'[t].req)
  /\ \/ tasks'[t].req.event.event_name # "order_created"
     \/ /\ tasks'[t].kind = "wh_credits"
        /\ tasks'[t].req.event.status # "paid"

\* It is acknowledged with 200 and nothing is recorded, credited or changed.
C28_Step ==
  \A t \in Tasks :
    NotASuccessfulOrder(t) =>
      /\ tasks'[t].pc = "done"
      /\ tasks'[t].ret \in {"200_unhandled_event", "200_received"}
      /\ ~tasks'[t].called
      /\ UNCHANGED << organization_credits, credit_purchases,
                      credit_transactions, organization, billable_events, user, web_calls >>

\* C28: a verified webhook that is not a successful order (an event name
\* other than order_created; in the CreditService-based handler also an
\* order_created whose status is not 'paid') is acknowledged with HTTP 200
\* and changes nothing: no purchase record, no crediting, balance and ledger
\* unchanged.
C28_OtherEventsAcknowledged == [][C28_Step]_vars


\* createBillableEvent has returned the inserted row of invocation t to its
\* caller.
CreateBillableEventResolved(t) ==
  /\ tasks[t].kind = "cbe"
  /\ tasks[t].ret = "insertedData"

\* C29: when the promise of createBillableEvent resolves for an event whose
\* insert succeeded, the credit processing of the event has completed: the
\* event is in a terminal status and its debit, if any, has been written;
\* with a healthy store the caller never sees it in pending_credit_check.
C29_ResolvedMeansProcessed ==
  \A t \in Tasks :
    CreateBillableEventResolved(t) =>
      /\ tasks[t].pc = "done"
      /\ billable_events[tasks[t].evt].status \in TerminalStatuses


\* saveResponse of invocation t created a billable event.
CreatedEventFor(t) ==
  /\ tasks[t].kind = "cbe"
  /\ tasks[t].call # "none"
  /\ tasks[t].evt > 0

\* C30: over any sequence of saveResponse calls at most one billable event
\* is created per call: saving the same ended call with a positive duration
\* again neither creates a second event nor debits the balance a second
\* time.
C30_OneEventPerCall ==
  \A t, u \in Tasks :
    (CreatedEventFor(t) /\ CreatedEventFor(u) /\ tasks[t].call = tasks[u].call)
      => t = u


\* The recharge transactions of the ledger that carry the order's id.
RechargesOf(order) ==
  { i \in DOMAIN credit_transactions :
      /\ credit_transactions[i].type = "recharge"
      /\ credit_transactions[i].payment_gateway_transaction_id = order }

\* The deliveries of the order that the CreditService-based handler credited.
CreditedDeliveries(order) ==
  { t \in Tasks : /\ tasks[t].kind = "wh_credits"
                  /\ tasks[t].p.order = order
                  /\ tasks[t].called
                  /\ tasks[t].pc \in {"cs_insert", "done"}
                  /\ tasks[t].ret # "500_update_credits" }

\* C31: in the CreditService-based webhook handler a second delivery of the
\* same paid order is detected and short-circuited: the balance is credited
\* once and one recharge transaction carries the order's id, however many
\* times the notification is delivered.
C31_RedeliveryCreditedOnce ==
  \A p \in WebhookPayloads :
    /\ Cardinality(RechargesOf(p.order)) <= 1
    /\ Cardinality(CreditedDeliveries(p.order)) <= 1
    /\ organization[p.org] \in {0, amount_usd(p.total)}

\* The 'initial' ledger transactions of a user, and of an organization.
InitialCreditsOfUser(u) ==
  { i \in DOMAIN credit_transactions :
      /\ credit_transactions[i].type = "initial"
      /\ credit_transactions[i].user_id = u }

InitialCreditsOfOrganization(o) ==
  { i \in DOMAIN credit_transactions :
      /\ credit_transactions[i].type = "initial"
      /\ credit_transactions[i].org = o }

PricedCalls ==
  { t \in Tasks :
      /\ tasks[t].kind = "retell"
      /\ Finished(t)
      /\ \/ tasks[t].ret \in {"200_zero_duration", "200_cost_rounded_to_zero"}
         \/ tasks[t].deductionSuccess = "true" }

\* What the request debited from the payer.
RetellDebit(t) ==
  IF tasks[t].deductionSuccess = "true" THEN 0 - tasks[t].amountToAdd ELSE 0

\* C33: the amount the Retell call_ended path debits for a call of d seconds
\* is the Cost Calculator's cost(d), for every d; a duration <= 0 debits
\* nothing and writes no ledger transaction.
C33_RetellDebitIsCalculatedCost ==
  \A t \in PricedCalls :
    /\ RetellDebit(t) = calculateInterviewCost(tasks[t].dur)
    /\ tasks[t].dur <= 0 =>
         /\ tasks[t].deductionSuccess = "none"
         /\ tasks[t].amountToAdd = 0

\* A step in which a request of the Retell webhook writes a balance.
RetellBalanceWrite(t) ==
  /\ tasks[t].kind = "retell"
  /\ tasks[t].pc = "cs_update"
  /\ organization' # organization \/ user' # user

\* C34: on the Retell call_ended path a usage debit is applied only when the
\* balance is at least the cost; a lower balance is not mutated, so the
\* deduction never stores negative credits.
C34_RetellDebitNeedsBalance ==
  [][\A t \in Tasks :
       RetellBalanceWrite(t) =>
         /\ tasks[t].gbRet >= 0 - tasks[t].amountToAdd
         /\ \A o \in Orgs : organization'[o] >= 0
         /\ \A u \in Users : user'[u].credits >= 0]_vars

\* C35: a storage error of the balance read inside CreditService.addCredits
\* is not swallowed: the update that follows never stores a balance computed
\* from a substituted 0; the stored balance stays, or becomes the true
\* balance plus the amount.
C35_FailedBalanceReadNotSubstituted ==
  [][\A t \in Tasks :
       tasks[t].pc = "cs_update" =>
         \A o \in Orgs :
           organization'[o] \in
             {organization[o], organization[o] + tasks[t].amountToAdd}]_vars

\* The calls of CreditService.addCredits and deductCredits that have
\* returned ret for the organization.
ReturnedCalls(o, ret) ==
  { t \in Tasks :
      /\ tasks[t].kind \in {"addCredits", "deductCredits"}
      /\ Finished(t)
      /\ tasks[t].ret = ret
      /\ tasks[t].org \in {o, "none"} }

RECURSIVE AmountsOf(_)
\* The sum of amountToAdd over the calls in S.
AmountsOf(S) ==
  IF S = {} THEN 0
  ELSE LET t == CHOOSE x \in S : TRUE
       IN tasks[t].amountToAdd + AmountsOf(S \ {t})

\* C38: a call of CreditService.addCredits or deductCredits that returned
\* false changed neither the stored balance nor the credit_transactions
\* ledger, and one that returned true changed the balance by exactly its
\* amount and appended exactly one transaction: between calls the balance is
\* the sum of the amounts of the calls that returned true, and the ledger
\* holds one transaction for each of them.
C38_ReturnValueTellsWhatChanged ==
  AllDone =>
    \A o \in Orgs :
      /\ organization[o] = AmountsOf(ReturnedCalls(o, "true"))
      /\ Len(credit_transactions) = Cardinality(ReturnedCalls(o, "true"))

\* The stored balance of the payer of a register-call request, 0 for a payer
\* without a row.
PayerBalance(t) ==
  IF tasks[t].entityType = "user"
  THEN (IF user[tasks[t].id].exists THEN user[tasks[t].id].credits ELSE 0)
  ELSE organization[tasks[t].org]

\* Every request that created a call, or is on its way to, read a balance of
\* at least the threshold; a request answered 402 created none.
C39_State ==
  \A t \in Tasks :
    tasks[t].kind = "register-call" =>
      /\ (t \in web_calls \/ tasks[t].pc \in {"rc_interviewer", "rc_create"})
           => tasks[t].gbRet >= minimumBalanceThreshold
      /\ tasks[t].ret = "402_insufficient_credits" => t \notin web_calls

\* The balance read of a request: a stored balance under the threshold, a
\* payer without a row and a read that fails are all answered 402, and
\* the step creates no call; any other read is kept as the balance read.
C39_Step ==
  \A t \in Tasks :
    (tasks[t].kind = "register-call" /\ tasks[t].pc = "rc_balance") =>
      /\ web_calls' = web_calls
      /\ IF \/ faults' # faults
            \/ (tasks[t].entityType = "user" /\ ~user[tasks[t].id].exists)
            \/ PayerBalance(t) < minimumBalanceThreshold
         THEN /\ tasks'[t].pc = "done"
              /\ tasks'[t].ret = "402_insufficient_credits"
         ELSE /\ tasks'[t].pc = "rc_interviewer"
              /\ tasks'[t].gbRet = PayerBalance(t)

\* C39: register-call creates a call at the call provider only if the
\* payer's balance read at registration is at least 0.01, otherwise it
\* answers 402 and creates no call; a payer whose balance cannot be read
\* (storage error, no row) counts as balance 0 and is refused.
C39_CallNeedsMinimumBalance == []C39_State /\ [][C39_Step]_vars

\* A call was created for a payer with credits, a request of a payer
\* whose balance read failed was answered 402, and so was one of a user
\* without a row.
C39_Witness ==
  /\ \E t \in web_calls : tasks[t].gbRet >= minimumBalanceThreshold
  /\ \E t \in Tasks :
       /\ tasks[t].ret = "402_insufficient_credits"
       /\ tasks[t].entityType = "organization"
       /\ organization[tasks[t].org] >= minimumBalanceThreshold
  /\ faults = 1

\* C36: in every reachable state, under every interleaving of concurrent
\* billable event processing and recharges through BillingService, the
\* stored balance of organization_credits is >= 0: no usage deduction writes
\* a negative balance.
C36_BalanceNeverNegative ==
  \A o \in Orgs : organization_credits[o].bal >= 0

\* A usage deduction has just been written while a recharge of the same
\* organization is between its balance read and its update.
C36_Witness ==
  \E t \in Tasks, r \in Tasks :
    /\ tasks[t].kind = "cbe"
    /\ tasks[t].pc = "pe_paid"
    /\ tasks[t].cost > 0
    /\ organization_credits[tasks[t].org].bal = tasks[t].nb
    /\ tasks[r].kind = "wh"
    /\ tasks[r].pc = "ac_update"
    /\ tasks[r].org = tasks[t].org

\* The deliveries of purchase row r that wrote a credited balance:
\* addCreditsToOrganization's update succeeded.
BalanceWrites(r) ==
  { t \in Tasks :
      /\ tasks[t].kind = "wh"
      /\ tasks[t].p.purchase = r.id
      /\ tasks[t].called
      /\ tasks[t].pc \in {"wh_processed", "done"}
      /\ tasks[t].err = "none" }

\* A processed purchase with credits to grant was credited by exactly one
\* delivery, which wrote the balance it read plus the credit.
C37_Processed ==
  \A r \in credit_purchases :
    (r.status = "processed" /\ r.credits > 0) =>
      /\ Cardinality(BalanceWrites(r)) = 1
      /\ \A t \in BalanceWrites(r) :
           tasks[t].nb = tasks[t].rawRet + CreditedAmount(r.credits)

\* The purchase of the first delivery is failed and nothing has happened
\* since: the organization's record is as the delivery found it.
C37_Failed ==
  \A r \in credit_purchases :
    ( /\ r.status = "failed"
      /\ tasks[1].kind = "wh" /\ tasks[1].p.purchase = r.id
      /\ LastStarted(1) )
    => organization_credits[r.org] = opening[r.org]

\* C37: for every payment confirmation record, in every reachable state
\* with database calls failing at any step: status processed implies the
\* credit of that order was applied to the balance exactly once, and status
\* failed implies that confirmation did not change the balance.
C37_StatusTellsWhatWasCredited == C37_Processed /\ C37_Failed

====
